---- MODULE Spec2Model ----
(***************************************************************************)
(* A model of the torrent-monitoring pipeline: title normalisation,        *)
(* entity grouping (main.py, scrapers/base_scraper.py) and the summary     *)
(* history with its ranking artifacts (data_manager.py).                   *)
(*                                                                         *)
(* Titles are sequences of one-character strings over Alphabet.  The       *)
(* regular expressions of clean_title and of the grouping-key functions    *)
(* are modelled by what they do on that alphabet: of an alternation, the   *)
(* alternatives that can be spelled with Alphabet are kept, and a pattern  *)
(* none of whose alternatives can be spelled is a no-op and is left out.   *)
(***************************************************************************)
EXTENDS Integers, Sequences, FiniteSets, TLC

\* ------------------------------------------------------------------------
\* Characters and elementary string functions
\* ------------------------------------------------------------------------

\* the letters a..z and A..Z
LowerCase ==
    <<"a", "b", "c", "d", "e", "f", "g", "h", "i", "j", "k", "l", "m",
      "n", "o", "p", "q", "r", "s", "t", "u", "v", "w", "x", "y", "z">>
UpperCase ==
    <<"A", "B", "C", "D", "E", "F", "G", "H", "I", "J", "K", "L", "M",
      "N", "O", "P", "Q", "R", "S", "T", "U", "V", "W", "X", "Y", "Z">>

\* the letters of the titles, in lower and upper case
LowerLetters ==
    {"a", "b", "c", "e", "g", "i", "k", "l", "m", "o", "p", "r", "t", "u", "v"}
UpperLetters ==
    {"A", "B", "C", "E", "G", "I", "K", "L", "M", "O", "P", "R", "T", "U", "V"}
\* \d of the re module
Digits == {"0", "1", "2", "3", "4", "5", "6", "7", "8", "9"}
Alphabet ==
    LowerLetters \cup UpperLetters \cup {"0", "1", "2"}
        \cup {" ", ".", "-", "(", ")", "[", "]"}

\* [a-z] under IGNORECASE, and \w of the re module
Letters == {LowerCase[i] : i \in 1..26} \cup {UpperCase[i] : i \in 1..26}
IsLetter(c) == c \in Letters
WordCharacters == Letters \cup Digits \cup {"_"}
IsWord(c) == c \in WordCharacters

\* str.lower() on one character
Capitals == {UpperCase[i] : i \in 1..26}
LowerOf == [c \in Capitals |-> LowerCase[CHOOSE i \in 1..26 : UpperCase[i] = c]]
LowerChar(c) == IF c \in Capitals THEN LowerOf[c] ELSE c

\* str.lower()
Lower(s) == [i \in 1..Len(s) |-> LowerChar(s[i])]

\* the characters of s at the positions that satisfy Keep, in order
RECURSIVE KeepAt(_, _, _)
KeepAt(s, keep, i) ==
    IF i > Len(s) THEN <<>>
    ELSE (IF i \in keep THEN <<s[i]>> ELSE <<>>) \o KeepAt(s, keep, i + 1)

\* title.replace('.', ' ')
ReplaceDots(s) == [i \in 1..Len(s) |-> IF s[i] = "." THEN " " ELSE s[i]]

\* str.strip(): leading and trailing whitespace removed
Least(S) == CHOOSE i \in S : \A j \in S : i <= j
Greatest(S) == CHOOSE i \in S : \A j \in S : i >= j
Between(s, ns) == IF ns = {} THEN <<>> ELSE SubSeq(s, Least(ns), Greatest(ns))
Strip(s) == Between(s, {i \in 1..Len(s) : s[i] # " "})

\* re.sub(r'\s+', ' ', s): every run of whitespace becomes one space
CollapseSpaces(s) ==
    KeepAt(s, {i \in 1..Len(s) : s[i] # " " \/ i = 1 \/ s[i - 1] # " "}, 1)

\* re.sub(r'\s+', '', s): all whitespace removed
RemoveSpaces(s) == KeepAt(s, {i \in 1..Len(s) : s[i] # " "}, 1)

\* re.sub(r'[<set>]+$', '', s): the longest suffix made of characters of set
StripTrailing(s, set) ==
    SubSeq(s, 1, Least({i \in 0..Len(s) : \A k \in (i + 1)..Len(s) : s[k] \in set}))

\* ------------------------------------------------------------------------
\* clean_title
\* ------------------------------------------------------------------------

\* a match of r'\b(19\d{2}|20\d{2})\b' starts at position i of s
YearAt(s, i) ==
    /\ i >= 1 /\ i + 3 <= Len(s)
    /\ \/ s[i] = "1" /\ s[i + 1] = "9"
       \/ s[i] = "2" /\ s[i + 1] = "0"
    /\ s[i + 2] \in Digits /\ s[i + 3] \in Digits
    /\ (i = 1 \/ ~IsWord(s[i - 1]))
    /\ (i + 3 = Len(s) \/ ~IsWord(s[i + 4]))

\* re.sub(r'\b(19\d{2}|20\d{2})\b', '', s): matches need a word boundary on
\* both sides, so no two of them overlap
RemoveYears(s) ==
    KeepAt(s, {i \in 1..Len(s) : \A j \in (i - 3)..i : ~YearAt(s, j)}, 1)

\* s[p..] is matched in full by r'\s*-\s*[a-z\d]+' (IGNORECASE)
EndGroupAt(s, p) ==
    \E q \in p..Len(s) :
        /\ \A k \in p..(q - 1) : s[k] = " "
        /\ s[q] = "-"
        /\ \E r \in (q + 1)..Len(s) :
              /\ \A k \in (q + 1)..(r - 1) : s[k] = " "
              /\ \A k \in r..Len(s) : IsLetter(s[k]) \/ s[k] \in Digits

\* s up to the leftmost of the starts of the matches
Before1(s, starts) == IF starts = {} THEN s ELSE SubSeq(s, 1, Least(starts) - 1)

\* RemoveEndGroup with a group name of letters only
RemoveEndGroup_Letters(s) ==
    Before1(s, {p \in 1..Len(s) :
                   \E q \in p..Len(s) :
                       /\ \A k \in p..(q - 1) : s[k] = " "
                       /\ s[q] = "-"
                       /\ \E r \in (q + 1)..Len(s) :
                             /\ \A k \in (q + 1)..(r - 1) : s[k] = " "
                             /\ \A k \in r..Len(s) : IsLetter(s[k])})

\* re.sub(r'\s*-\s*[a-z\d]+$', '', s): the leftmost match is removed, and it
\* reaches the end of the string
RemoveEndGroup(s) == Before1(s, {p \in 1..Len(s) : EndGroupAt(s, p)})

\* re.sub(r'[:;,.\-...()_...\[\]...]+', '', s): the punctuation of Alphabet,
\* and the '_' of the keys of titles without a name
RemovePunctuation(s) ==
    KeepAt(s, {i \in 1..Len(s) : s[i] \notin {"-", ".", "_", "(", ")", "[", "]"}}, 1)

\* \b at the gap before position i of s, for i in 1..Len(s) + 1
Boundary(s, i) ==
    (i > 1 /\ IsWord(s[i - 1])) # (i <= Len(s) /\ IsWord(s[i]))

\* the length of the longest run of digits of s that starts at position i
RECURSIVE DigitRun(_, _)
DigitRun(s, i) ==
    IF i <= Len(s) /\ s[i] \in Digits THEN 1 + DigitRun(s, i + 1) ELSE 0

\* re.sub(pattern, '', s) given the length of the match of the pattern that
\* starts at each position, 0 where none does: the scan goes from the left
\* and goes on behind each match
RECURSIVE RemoveSpans(_, _, _)
RemoveSpans(s, length, i) ==
    IF i > Len(s) THEN <<>>
    ELSE IF length[i] > 0 THEN RemoveSpans(s, length, i + length[i])
    ELSE <<s[i]>> \o RemoveSpans(s, length, i + 1)

\* nothing is copied when the pattern matches nowhere
RemoveMatches(s, length) ==
    IF \A i \in 1..Len(s) : length[i] = 0 THEN s ELSE RemoveSpans(s, length, 1)

\* An alternative of a pattern of words is a word in lower case that may be
\* followed by digits: by none ("no"), by \d* ("any") or by \d+ ("some").
Word(w) == [word |-> w, digits |-> "no"]

\* the length of the match of <alternative>\b (IGNORECASE) at position i of
\* s, 0 when there is none: the digits are taken greedily, and giving some
\* back never makes the \b behind them hold
AlternativeEnd(s, i, alt, run) ==
    IF alt.digits = "some" /\ run = 0 THEN 0
    ELSE IF Boundary(s, i + Len(alt.word) + run) THEN Len(alt.word) + run
    ELSE 0

AlternativeLength(s, i, alt) ==
    IF /\ i + Len(alt.word) - 1 <= Len(s)
       /\ \A k \in 1..Len(alt.word) : LowerChar(s[i + k - 1]) = alt.word[k]
    THEN AlternativeEnd(s, i, alt,
                        IF alt.digits = "no" THEN 0 ELSE DigitRun(s, i + Len(alt.word)))
    ELSE 0

\* the alternatives are tried in their order
RECURSIVE WordsLength(_, _, _, _)
WordsLength(s, i, alts, a) ==
    IF a > Len(alts) THEN 0
    ELSE IF AlternativeLength(s, i, alts[a]) > 0 THEN AlternativeLength(s, i, alts[a])
    ELSE WordsLength(s, i, alts, a + 1)

\* re.sub(r'\b(w1|w2|...)\b', '', s, flags=re.IGNORECASE): an alternative
\* is tried where the \b in front holds
RemoveWords(s, alts) ==
    RemoveMatches(s, [i \in 1..Len(s) |->
                         IF Boundary(s, i) THEN WordsLength(s, i, alts, 1) ELSE 0])

\* re.sub(r'\[.*?\]', '', s) and re.sub(r'\(.*?\)', '', s): from an opening
\* bracket to the first closing bracket behind it
EnclosedLength(s, i, open, closers) ==
    IF s[i] # open \/ closers = {} THEN 0 ELSE Least(closers) - i + 1

RemoveEnclosed(s, open, close) ==
    RemoveMatches(s, [i \in 1..Len(s) |->
                         EnclosedLength(s, i, open,
                                        {j \in (i + 1)..Len(s) : s[j] = close})])

\* re.sub(r'\b(\d{3,4}p)\b', '', s, flags=re.IGNORECASE)
ResolutionLength(s, i, run) ==
    IF /\ Boundary(s, i)
       /\ run \in {3, 4}
       /\ i + run <= Len(s)
       /\ LowerChar(s[i + run]) = "p"
       /\ Boundary(s, i + run + 1)
    THEN run + 1 ELSE 0

RemoveResolutions(s) ==
    RemoveMatches(s, [i \in 1..Len(s) |-> ResolutionLength(s, i, DigitRun(s, i))])

\* re.sub(r'\b(v[\d\.]+)', '', s, flags=re.IGNORECASE) on a string whose
\* dots have become spaces
VersionLength(s, i, run) ==
    IF Boundary(s, i) /\ LowerChar(s[i]) = "v" /\ run > 0 THEN run + 1 ELSE 0

RemoveVersions(s) ==
    RemoveMatches(s, [i \in 1..Len(s) |-> VersionLength(s, i, DigitRun(s, i + 1))])

\* The patterns of patterns_all in their order.  r'\b(\d\.\d)\b' and
\* r'\(v[\d\.]+.*?\)' never match here: the dots have become spaces, and
\* behind r'\(.*?\)' no opening parenthesis has a closing one behind it.
PatternsAll(s) ==
    LET brackets == RemoveEnclosed(RemoveEnclosed(s, "[", "]"), "(", ")")
        release == RemoveWords(brackets, <<Word(<<"c", "a", "m">>), Word(<<"t", "c">>)>>)
        source == RemoveWords(release, <<Word(<<"b", "r", "r", "i", "p">>)>>)
        audio == RemoveWords(source, <<Word(<<"a", "a", "c">>)>>)
        versions == RemoveVersions(RemoveResolutions(audio))
        repack == RemoveWords(versions, <<Word(<<"r", "e", "p", "a", "c", "k">>)>>)
        multi == RemoveWords(repack, <<[word |-> <<"m", "u", "l", "t", "i">>,
                                        digits |-> "any"]>>)
        years == RemoveYears(multi)
    IN RemoveWords(years, <<Word(<<"i", "t", "a">>), Word(<<"g", "e", "r">>)>>)

\* The patterns of patterns_matching_only in their order.  r'\s*\(.*\)$' and
\* r'\s*\[.*\]$' never match here, for the reason given above.
PatternsMatchingOnly(s) ==
    LET groups == RemoveWords(s, <<Word(<<"r", "a", "r", "b", "g">>),
                                   Word(<<"e", "t", "r", "g">>),
                                   Word(<<"e", "v", "o">>), Word(<<"m", "t">>)>>)
        repackers == RemoveWords(groups, <<Word(<<"g", "o", "g">>)>>)
        collective == RemoveWords(repackers,
                                  <<Word(<<"c", "o", "l", "l", "e", "c", "t", "i", "v", "e">>)>>)
        ending == RemoveEndGroup(collective)
        editions == RemoveWords(ending, <<Word(<<"u", "l", "t", "i", "m", "a", "t", "e">>),
                                          Word(<<"c", "o", "m", "p", "l", "e", "t", "e">>),
                                          Word(<<"c", "o", "l", "l", "e", "c", "t", "o", "r">>),
                                          Word(<<"p", "r", "e", "m", "i", "u", "m">>),
                                          Word(<<"p", "a", "c", "k">>)>>)
        tags == RemoveWords(editions, <<Word(<<"r", "e", "p", "a", "c", "k">>),
                                        Word(<<"r", "i", "p">>),
                                        Word(<<"p", "o", "r", "t", "a", "b", "l", "e">>)>>)
        builds == RemoveWords(tags, <<[word |-> <<"v">>, digits |-> "some"]>>)
        languages == RemoveWords(builds, <<[word |-> <<"m", "u", "l", "t", "i">>,
                                            digits |-> "any"],
                                           Word(<<"i", "t", "a">>), Word(<<"k", "o", "r">>),
                                           Word(<<"g", "e", "r">>)>>)
    IN RemoveWords(languages, <<Word(<<"g", "o", "g">>)>>)

\* lines 129-138: the patterns that apply to the mode, and for matching the
\* punctuation
CleanPatterns(cleaned, for_display) ==
    IF for_display THEN PatternsAll(cleaned)
    ELSE RemovePunctuation(PatternsMatchingOnly(PatternsAll(cleaned)))

\* lines 145-147: whitespace, then the trailing separators
CleanSpaces(cleaned) ==
    Strip(StripTrailing(Strip(CollapseSpaces(cleaned)), {" ", ":", "-"}))

\* line 150
CleanCase(cleaned, for_display) == IF for_display THEN cleaned ELSE Lower(cleaned)

clean_title(title, for_display) ==
    CleanCase(CleanSpaces(CleanPatterns(ReplaceDots(title), for_display)), for_display)

\* ------------------------------------------------------------------------
\* Grouping keys
\* ------------------------------------------------------------------------

unknown_movie_group ==
    <<"u","n","k","n","o","w","n","_","m","o","v","i","e","_","g","r","o","u","p">>

unknown_game_group ==
    <<"u","n","k","n","o","w","n","_","g","a","m","e","_","g","r","o","u","p">>

\* x or y, for strings
OrElse(x, y) == IF x # <<>> THEN x ELSE y

\* potential_prefix, empty when no year is found: years are the starts of
\* the year matches in cleaned_for_year_find
potential_prefix(cleaned_for_year_find, years) ==
    IF years = {} THEN <<>>
    ELSE Strip(SubSeq(cleaned_for_year_find, 1, Least(years) - 1))

movie_base_for_key(title, prefix) ==
    IF prefix # <<>> THEN prefix ELSE clean_title(title, FALSE)

movie_normalized_key(key) == IF key = <<>> THEN unknown_movie_group ELSE key

display_prefix(title, base_for_key) ==
    IF base_for_key # <<>> THEN base_for_key ELSE OrElse(clean_title(title, TRUE), title)

final_display_prefix(stripped) ==
    IF stripped # <<>> /\ stripped[Len(stripped)] \in {"(", "["}
    THEN Strip(SubSeq(stripped, 1, Len(stripped) - 1))
    ELSE stripped

MovieKeyOf(title, base_for_key) ==
    [key |-> movie_normalized_key(Lower(RemoveSpaces(base_for_key))),
     display |-> final_display_prefix(Strip(display_prefix(title, base_for_key)))]

MoviePrefix(cleaned_for_year_find) ==
    potential_prefix(cleaned_for_year_find,
                     {i \in 1..Len(cleaned_for_year_find) : YearAt(cleaned_for_year_find, i)})

get_movie_grouping_key(title) ==
    MovieKeyOf(title, movie_base_for_key(title, MoviePrefix(ReplaceDots(title))))

\* s[a..e] is matched in full by r'\s*\d+\s*[/.]?\s*\d+'
DigitsTag(s, a, e) ==
    \E a1 \in a..e : \E b1 \in a1..(e - 1) : \E a2 \in (b1 + 1)..e :
        /\ \A k \in a..(a1 - 1) : s[k] = " "
        /\ \A k \in a1..b1 : s[k] \in Digits
        /\ \A k \in a2..e : s[k] \in Digits
        /\ \A k \in (b1 + 1)..(a2 - 1) : s[k] \in {" ", "/", "."}
        /\ Cardinality({k \in (b1 + 1)..(a2 - 1) : s[k] # " "}) <= 1

\* a match of r'\s*[-\(:]\s*(?:<alternatives>)\b.*$' starts at position p of
\* s, where the alternatives are words, or numbers when numbers is TRUE; a
\* word that follows a separator or a space starts at a word boundary
SeparatorTagAt(s, p, numbers, alts) ==
    \E q \in p..Len(s) :
        /\ \A k \in p..(q - 1) : s[k] = " "
        /\ s[q] \in {"-", "(", ":"}
        /\ \/ /\ numbers
              /\ \E e \in (q + 1)..Len(s) :
                    /\ DigitsTag(s, q + 1, e)
                    /\ (e = Len(s) \/ ~IsWord(s[e + 1]))
           \/ \E r \in (q + 1)..Len(s) :
                 /\ \A k \in (q + 1)..(r - 1) : s[k] = " "
                 /\ WordsLength(s, r, alts, 1) > 0

\* r'\s*[-\(:]\s*(?:\d+\s*[/.]?\s*\d+|v\d+|build|...|multi\d*|...|ita|jpn|kor)\b.*'
BuildTagAt(s, p) ==
    SeparatorTagAt(s, p, TRUE,
                   <<[word |-> <<"v">>, digits |-> "some"],
                     [word |-> <<"m", "u", "l", "t", "i">>, digits |-> "any"],
                     Word(<<"i", "t", "a">>), Word(<<"k", "o", "r">>)>>)

\* r'\s*[-\(:]\s*(?:premium|deluxe|...|repack|rip|...|p2p|gog|flt)\b.*'
EditionTagAt(s, p) ==
    SeparatorTagAt(s, p, FALSE,
                   <<Word(<<"p", "r", "e", "m", "i", "u", "m">>),
                     Word(<<"u", "l", "t", "i", "m", "a", "t", "e">>),
                     Word(<<"c", "o", "m", "p", "l", "e", "t", "e">>),
                     Word(<<"p", "a", "c", "k">>),
                     Word(<<"r", "e", "p", "a", "c", "k">>),
                     Word(<<"r", "i", "p">>),
                     Word(<<"p", "2", "p">>),
                     Word(<<"g", "o", "g">>)>>)

\* a match of r'\s*\(.*\)$' starts at position p of s
ParenthesesAt(s, p) ==
    \E q \in p..(Len(s) - 1) :
        /\ \A k \in p..(q - 1) : s[k] = " "
        /\ s[q] = "(" /\ s[Len(s)] = ")"

\* a match of r'\s*\[[^\]]*\]$' starts at position p of s
BracketsAt(s, p) ==
    \E q \in p..(Len(s) - 1) :
        /\ \A k \in p..(q - 1) : s[k] = " "
        /\ s[q] = "[" /\ s[Len(s)] = "]"
        /\ \A k \in (q + 1)..(Len(s) - 1) : s[k] # "]"

\* temp_title[:match.start()].strip() for the leftmost of the matches
CutSuffix(s, starts) ==
    IF starts = {} THEN s ELSE Strip(SubSeq(s, 1, Least(starts) - 1))

\* The suffixes_to_remove loop: each pattern in its turn cuts its leftmost
\* match off with what follows.  The five last patterns cannot be spelled
\* with Alphabet, or need the parenthesis that the third has cut off.
CutBuildTags(t) == CutSuffix(t, {p \in 1..Len(t) : BuildTagAt(t, p)})
CutEditionTags(t) == CutSuffix(t, {p \in 1..Len(t) : EditionTagAt(t, p)})
CutParentheses(t) == CutSuffix(t, {p \in 1..Len(t) : ParenthesesAt(t, p)})
CutBrackets(t) == CutSuffix(t, {p \in 1..Len(t) : BracketsAt(t, p)})
RemoveSuffixes(s) == CutBrackets(CutParentheses(CutEditionTags(CutBuildTags(s))))

\* display_title once the key is known (lines 247-251)
game_display_title(title, display_title, key) ==
    IF key = <<>> /\ display_title = title
    THEN OrElse(clean_title(title, TRUE), title)
    ELSE display_title

\* temp_title after the loop, without its trailing separators (line 279)
game_temp_title(temp_title) ==
    Strip(StripTrailing(temp_title, {" ", ":", ";", ",", ".", "(", "[", "-"}))

GameKeyOf(title, display_title, key) ==
    [key |-> IF key = <<>> THEN unknown_game_group ELSE key,
     display |->
         OrElse(OrElse(game_temp_title(RemoveSuffixes(
                           game_display_title(title, display_title, key))),
                       clean_title(title, TRUE)),
                title)]

get_game_grouping_key(title) ==
    GameKeyOf(title, OrElse(clean_title(title, TRUE), title),
              Lower(RemoveSpaces(clean_title(title, FALSE))))

\* ------------------------------------------------------------------------
\* Title similarity (difflib.SequenceMatcher)
\* ------------------------------------------------------------------------

\* SequenceMatcher.find_longest_match on a[alo..ahi] and b[blo..bhi]: the
\* longest common block; of the longest, the one starting earliest in a,
\* and of those the one starting earliest in b
Blocks(a, b, alo, ahi, blo, bhi) ==
    {blk \in (alo..ahi) \X (blo..bhi) \X (1..(ahi - alo + 1)) :
        /\ blk[1] + blk[3] - 1 <= ahi
        /\ blk[2] + blk[3] - 1 <= bhi
        /\ \A d \in 0..(blk[3] - 1) : a[blk[1] + d] = b[blk[2] + d]}

find_longest_match(a, b, alo, ahi, blo, bhi) ==
    LET best(all) ==
            CHOOSE x \in all : \A y \in all :
                \/ x[3] > y[3]
                \/ x[3] = y[3] /\ x[1] < y[1]
                \/ x[3] = y[3] /\ x[1] = y[1] /\ x[2] <= y[2]
    IN best(Blocks(a, b, alo, ahi, blo, bhi))

\* the sum of the sizes of SequenceMatcher.get_matching_blocks()
RECURSIVE Matches(_, _, _, _, _, _)
Matches(a, b, alo, ahi, blo, bhi) ==
    LET around(m) == m[3] + Matches(a, b, alo, m[1] - 1, blo, m[2] - 1)
                          + Matches(a, b, m[1] + m[3], ahi, m[2] + m[3], bhi)
    IN IF alo > ahi \/ blo > bhi \/ Blocks(a, b, alo, ahi, blo, bhi) = {} THEN 0
       ELSE around(find_longest_match(a, b, alo, ahi, blo, bhi))

\* similarity_threshold = 0.6, as the fraction ThresholdNum / ThresholdDen
ThresholdNum == 6
ThresholdDen == 10

\* calculate_similarity(title1, title2) >= similarity_threshold, where
\* ratio() is 2.0 * matches / length, and 1.0 when both strings are empty
IsSimilar(title1, title2) ==
    LET reaches(clean_title1, clean_title2) ==
            LET length == Len(clean_title1) + Len(clean_title2)
                matches == Matches(clean_title1, clean_title2,
                                   1, Len(clean_title1), 1, Len(clean_title2))
            IN IF length = 0 THEN TRUE
               ELSE 2 * matches * ThresholdDen >= ThresholdNum * length
    IN reaches(clean_title(title1, FALSE), clean_title(title2, FALSE))

\* ------------------------------------------------------------------------
\* Listings and entity groups
\* ------------------------------------------------------------------------

Categories == {"games", "movies"}

\* the record GamesScraper.scrape / MoviesScraper.scrape appends for one
\* table row
Listing(title, seeders, leechers, category) ==
    [title |-> title, seeders |-> seeders, leechers |-> leechers,
     total_peers |-> seeders + leechers, category |-> category,
     clean_title |-> clean_title(title, TRUE)]

\* get_game_grouping_key for games, get_movie_grouping_key for movies
GroupingKey(category, title) ==
    IF category = "games" THEN get_game_grouping_key(title)
    ELSE get_movie_grouping_key(title)

\* AddToGroups with the listing's peers left out of the group's total_peers
\* when the bucket already exists
AddToGroups_PeersOnce(groups, item, category) ==
    LET add(k) ==
            IF \A g \in 1..Len(groups) : groups[g].key # k.key
            THEN Append(groups, [key |-> k.key, display_title |-> k.display,
                                 torrents |-> <<item>>,
                                 total_seeders |-> item.seeders,
                                 total_leechers |-> item.leechers,
                                 total_peers |-> item.seeders + item.leechers])
            ELSE [groups EXCEPT ![CHOOSE g \in 1..Len(groups) : groups[g].key = k.key] =
                    [@ EXCEPT !.torrents = Append(@, item),
                              !.total_seeders = @ + item.seeders,
                              !.total_leechers = @ + item.leechers]]
    IN add(GroupingKey(category, item.title))

\* AddToGroups with the buckets looked up by display title instead of key
AddToGroups_ByDisplay(groups, item, category) ==
    LET add(k) ==
            IF \A g \in 1..Len(groups) : groups[g].display_title # k.display
            THEN Append(groups, [key |-> k.key, display_title |-> k.display,
                                 torrents |-> <<item>>,
                                 total_seeders |-> item.seeders,
                                 total_leechers |-> item.leechers,
                                 total_peers |-> item.seeders + item.leechers])
            ELSE [groups EXCEPT
                    ![CHOOSE g \in 1..Len(groups) :
                          groups[g].display_title = k.display] =
                    [@ EXCEPT !.torrents = Append(@, item),
                              !.total_seeders = @ + item.seeders,
                              !.total_leechers = @ + item.leechers,
                              !.total_peers = @ + item.seeders + item.leechers]]
    IN add(GroupingKey(category, item.title))

\* one iteration of the loop that fills game_groups / movie_groups, a dict in
\* insertion order: a sequence of buckets in the order their key was first
\* seen.  A key that is not in the dict gets an empty bucket first.
AddToGroups(groups, item, category) ==
    LET current_peers == item.seeders + item.leechers
        known(k) ==
            IF \E g \in 1..Len(groups) : groups[g].key = k.key THEN groups
            ELSE Append(groups, [key |-> k.key, display_title |-> k.display,
                                 torrents |-> <<>>, total_seeders |-> 0,
                                 total_leechers |-> 0, total_peers |-> 0])
        put(buckets, key) ==
            [buckets EXCEPT ![CHOOSE g \in 1..Len(buckets) : buckets[g].key = key] =
                [@ EXCEPT !.torrents = Append(@, item),
                          !.total_seeders = @ + item.seeders,
                          !.total_leechers = @ + item.leechers,
                          !.total_peers = @ + current_peers]]
        add(k) == put(known(k), k.key)
    IN add(GroupingKey(category, item.title))

RECURSIVE BuildGroups(_, _, _)
BuildGroups(data, category, n) ==
    IF n = 0 THEN <<>>
    ELSE AddToGroups(BuildGroups(data, category, n - 1), data[n], category)

\* max(torrents, key=seeders + leechers): the first member with the most peers
Representative(torrents) ==
    LET peers(i) == torrents[i].seeders + torrents[i].leechers
        best == {i \in 1..Len(torrents) : \A j \in 1..Len(torrents) : peers(i) >= peers(j)}
    IN torrents[CHOOSE i \in best : \A j \in best : i <= j]

\* GroupRecord without the copy: the display title is written into the
\* listing itself, which is the one the bucket holds
GroupRecord_InPlace(bucket) ==
    LET shown(r) ==
            [i \in 1..Len(bucket.torrents) |->
                IF bucket.torrents[i] = r
                THEN [r EXCEPT !.clean_title = bucket.display_title]
                ELSE bucket.torrents[i]]
    IN [representative |-> [Representative(bucket.torrents)
                                EXCEPT !.clean_title = bucket.display_title],
        total_seeders |-> bucket.total_seeders,
        total_leechers |-> bucket.total_leechers,
        total_peers |-> bucket.total_peers,
        torrents |-> shown(Representative(bucket.torrents))]

\* the second loop: one output group per bucket, its representative a copy
\* whose clean_title is the bucket's display title
GroupRecord(bucket) ==
    [representative |-> [Representative(bucket.torrents)
                             EXCEPT !.clean_title = bucket.display_title],
     total_seeders |-> bucket.total_seeders,
     total_leechers |-> bucket.total_leechers,
     total_peers |-> bucket.total_peers,
     torrents |-> bucket.torrents]

\* the custom grouping of scrape_data for one category
GroupByKey(data, category) ==
    LET records(buckets) == [g \in 1..Len(buckets) |-> GroupRecord(buckets[g])]
    IN records(BuildGroups(data, category, Len(data)))

\* SortedItems that leaves the listings in their input order
SortedItems_Unsorted(items_data) == items_data

\* sorted(items_data, key=total_peers, reverse=True): stable, so listings with
\* equal peers keep their input order
SortedItems(items_data) ==
    LET before(i, j) == \/ items_data[i].total_peers > items_data[j].total_peers
                        \/ /\ items_data[i].total_peers = items_data[j].total_peers
                           /\ i < j
        rank(i) == 1 + Cardinality({j \in 1..Len(items_data) : before(j, i)})
    IN [r \in 1..Len(items_data) |->
           items_data[CHOOSE i \in 1..Len(items_data) : rank(i) = r]]

\* the inner loop of group_similar_items for representative i, from index j on
RECURSIVE Absorb(_, _, _, _, _)
Absorb(sorted_items, i, j, group, processed) ==
    IF j > Len(sorted_items) THEN [group |-> group, processed |-> processed]
    ELSE IF j \in processed \/ i = j
              \/ ~IsSimilar(sorted_items[i].title, sorted_items[j].title)
         THEN Absorb(sorted_items, i, j + 1, group, processed)
         ELSE Absorb(sorted_items, i, j + 1,
                     [group EXCEPT
                         !.titles = Append(@, sorted_items[j].title),
                         !.total_seeders = @ + sorted_items[j].seeders,
                         !.total_leechers = @ + sorted_items[j].leechers,
                         !.total_peers = @ + sorted_items[j].total_peers,
                         !.versions = Append(@, sorted_items[j])],
                     processed \cup {j})

\* the outer loop of group_similar_items, from index i on
RECURSIVE Cluster(_, _, _, _)
Cluster(sorted_items, i, groups, processed) ==
    IF i > Len(sorted_items) THEN groups
    ELSE IF i \in processed THEN Cluster(sorted_items, i + 1, groups, processed)
    ELSE LET item == sorted_items[i]
             current_group == [representative |-> item,
                               titles |-> <<item.title>>,
                               total_seeders |-> item.seeders,
                               total_leechers |-> item.leechers,
                               total_peers |-> item.total_peers,
                               versions |-> <<item>>]
             next(done) ==
                 Cluster(sorted_items, i + 1, Append(groups, done.group), done.processed)
         IN next(Absorb(sorted_items, i, 1, current_group, processed \cup {i}))

group_similar_items(items_data) ==
    IF items_data = <<>> THEN <<>>
    ELSE Cluster(SortedItems(items_data), 1, <<>>, {})

\* ------------------------------------------------------------------------
\* The summary history (data-summary/summary_data.csv)
\* ------------------------------------------------------------------------

\* The file is a sequence of lines: the header line to_csv writes, the rows,
\* and lines that are not valid CSV (written by something other than to_csv).
HeaderLine == [kind |-> "header"]
GarbageLine == [kind |-> "garbage"]
NoFile == [exists |-> FALSE, lines |-> <<>>]

\* Instants of the wall clock are integers; strftime("%Y-%m-%d") of an
\* instant is its day number, and day numbers order like the date strings.
TicksPerDay == 2
DateOf(t) == t \div TicksPerDay

\* SummaryRow with the counts of the group's representative listing in place
\* of the group's totals
SummaryRow_Representative(group, category, current_date, timestamp_iso) ==
    [kind |-> "row",
     title |-> group.representative.clean_title,
     seeders |-> group.representative.seeders,
     leechers |-> group.representative.leechers,
     peers |-> group.representative.seeders + group.representative.leechers,
     category |-> category,
     date |-> current_date,
     timestamp |-> timestamp_iso]

\* the dictionary update_summary_data appends to current_summary for a group
SummaryRow(group, category, current_date, timestamp_iso) ==
    [kind |-> "row",
     title |-> group.representative.clean_title,
     seeders |-> group.total_seeders,
     leechers |-> group.total_leechers,
     peers |-> group.total_peers,
     category |-> category,
     date |-> current_date,
     timestamp |-> timestamp_iso]

current_summary(grouped_data, category, current_date, timestamp_iso) ==
    [g \in 1..Len(grouped_data) |->
        SummaryRow(grouped_data[g], category, current_date, timestamp_iso)]

\* to_csv_append that writes the header at every call
to_csv_append_HeaderAlways(file, new_df) ==
    [exists |-> TRUE, lines |-> file.lines \o <<HeaderLine>> \o new_df]

\* to_csv that writes the header whatever it is told
to_csv_HeaderAlways(file, new_df, header) ==
    [exists |-> TRUE, lines |-> file.lines \o <<HeaderLine>> \o new_df]

\* new_df.to_csv(summary_file, mode='a', header=header): the file is made
\* when it is missing
to_csv(file, new_df, header) ==
    [exists |-> TRUE,
     lines |-> file.lines \o (IF header THEN <<HeaderLine>> ELSE <<>>) \o new_df]

\* new_df.to_csv(summary_file, mode='a', header=not file_exists)
to_csv_append(file, new_df) ==
    [exists |-> TRUE,
     lines |-> (IF file.exists THEN file.lines ELSE <<HeaderLine>>) \o new_df]

\* pd.read_csv(summary_file) and the first use of a column of its frame:
\* the exception raised ("none" when there is none) and the data frame, the
\* lines after the header.  An empty file raises EmptyDataError, a
\* ValueError.  A file whose first line is not the header is read with that
\* line as the column names, so that df['date'] and df['timestamp'] raise
\* KeyError.  The fields come back as they were written, which is what
\* pandas does for the titles used here (non-empty and not all digits); the
\* type inference of read_csv on other titles is not modelled.
read_csv(file) ==
    IF ~file.exists THEN [error |-> "FileNotFoundError", df |-> <<>>]
    ELSE IF file.lines = <<>> THEN [error |-> "EmptyDataError", df |-> <<>>]
    ELSE IF \E i \in 1..Len(file.lines) : file.lines[i] = GarbageLine
         THEN [error |-> "ParserError", df |-> <<>>]
    ELSE IF file.lines[1] # HeaderLine THEN [error |-> "KeyError", df |-> <<>>]
    ELSE [error |-> "none", df |-> Tail(file.lines)]

\* ------------------------------------------------------------------------
\* Snapshots
\* ------------------------------------------------------------------------

SnapshotKinds == {"raw", "grouped"}

\* no snapshot file of a category and kind was written; of the written ones
\* the model keeps the latest, with the timestamp of its name
NoSnapshot == [written |-> FALSE, timestamp |-> 0, rows |-> <<>>]

\* save_raw_data that writes a file for an empty list as well
save_raw_data_Always(data, category, old, timestamp) ==
    [written |-> TRUE, timestamp |-> timestamp, rows |-> data]

\* save_raw_data(data, category), called under "if games_data:": one row
\* per listing, in <category>_raw_<timestamp>.csv
save_raw_data(data, category, old, timestamp) ==
    IF data = <<>> THEN old
    ELSE [written |-> TRUE, timestamp |-> timestamp, rows |-> data]

\* save_grouped_data(grouped_data, category), called under
\* "if games_grouped:": one row per group, in <category>_grouped_<timestamp>.csv
save_grouped_data(grouped_data, category, old, timestamp) ==
    IF grouped_data = <<>> THEN old
    ELSE [written |-> TRUE, timestamp |-> timestamp,
          rows |-> [g \in 1..Len(grouped_data) |->
                      [main_title |-> grouped_data[g].representative.clean_title,
                       total_seeders |-> grouped_data[g].total_seeders,
                       total_leechers |-> grouped_data[g].total_leechers,
                       total_peers |-> grouped_data[g].total_peers]]]

\* ------------------------------------------------------------------------
\* Rankings
\* ------------------------------------------------------------------------

Periods == {"daily", "weekly"}

\* a ranking file that was never written; of a written one the model keeps
\* "period" and "rankings", the "updated_at" field is left out
NoRanking == [written |-> FALSE, period |-> "", rankings |-> <<>>]

\* previous_rank None, rank_change "new" or a number
None == <<>>
Rank(n) == <<n>>
New == <<"new">>
Change(d) == <<"int", d>>

TopN == 20
DailyDates == 2
WeeklyDates == 7

\* df['date'].unique()
UniqueDates(df) == {df[i].date : i \in 1..Len(df)}

\* sorted(dates), ascending
RECURSIVE SortedDates(_)
SortedDates(dates) ==
    IF dates = {} THEN <<>>
    ELSE LET last == CHOOSE d \in dates : \A e \in dates : e <= d
         IN Append(SortedDates(dates \ {last}), last)

\* df[df['date'] == date][... ['category'] == category]
RowsOf(df, date, category) ==
    SelectSeq(df, LAMBDA r : r.date = date /\ r.category = category)

\* data.sort_values('peers', ascending=False).reset_index(drop=True): the
\* default sort is not stable, so rows with equal peers may come in any order
RECURSIVE DescendingOrders(_, _)
DescendingOrders(data, rest) ==
    IF rest = {} THEN {<<>>}
    ELSE LET top == {i \in rest : \A j \in rest : data[i].peers >= data[j].peers}
         IN UNION {{<<data[i]>> \o s : s \in DescendingOrders(data, rest \ {i})} :
                       i \in top}

sort_values(data) == DescendingOrders(data, 1..Len(data))

\* previous_ranks[title]: the dict keeps the last position written for a title
PreviousRanks(previous_sorted, title) ==
    {i \in 1..Len(previous_sorted) : previous_sorted[i].title = title}

\* RankingEntries with rank_change counted the other way round
RankingEntries_Reversed(current_sorted, previous_sorted) ==
    LET n == IF Len(current_sorted) < TopN THEN Len(current_sorted) ELSE TopN
    IN [i \in 1..n |->
          LET row == current_sorted[i]
              found == PreviousRanks(previous_sorted, row.title)
              previous_rank == CHOOSE p \in found : \A q \in found : q <= p
          IN [title |-> row.title,
              current_rank |-> i,
              previous_rank |-> IF found # {} THEN Rank(previous_rank) ELSE None,
              rank_change |-> IF found # {} THEN Change(i - previous_rank) ELSE New,
              seeders |-> row.seeders,
              leechers |-> row.leechers,
              peers |-> row.peers]]

\* RankingEntries without the cut at 20 rows
RankingEntries_Uncut(current_sorted, previous_sorted) ==
    [i \in 1..Len(current_sorted) |->
          LET row == current_sorted[i]
              found == PreviousRanks(previous_sorted, row.title)
              previous_rank == CHOOSE p \in found : \A q \in found : q <= p
          IN [title |-> row.title,
              current_rank |-> i,
              previous_rank |-> IF found # {} THEN Rank(previous_rank) ELSE None,
              rank_change |-> IF found # {} THEN Change(previous_rank - i) ELSE New,
              seeders |-> row.seeders,
              leechers |-> row.leechers,
              peers |-> row.peers]]

\* the rankings list built from current_sorted.head(20)
RankingEntries(current_sorted, previous_sorted) ==
    LET n == IF Len(current_sorted) < TopN THEN Len(current_sorted) ELSE TopN
    IN [i \in 1..n |->
          LET row == current_sorted[i]
              found == PreviousRanks(previous_sorted, row.title)
              previous_rank == CHOOSE p \in found : \A q \in found : q <= p
          IN [title |-> row.title,
              current_rank |-> i,
              previous_rank |-> IF found # {} THEN Rank(previous_rank) ELSE None,
              rank_change |-> IF found # {} THEN Change(previous_rank - i) ELSE New,
              seeders |-> row.seeders,
              leechers |-> row.leechers,
              peers |-> row.peers]]

\* _calculate_ranking_changes: the contents the output file can have
\* afterwards, whether "rankings saved to" was printed, and whether the call
\* raised.  The file is written inside the loop over the current rows, so
\* it is left as it was (old) when there is no current row; open() raises
\* an OSError when the file cannot be opened for writing (writable false),
\* and nothing in the function catches it.
calculate_ranking_changes(current_data, previous_data, period, old, writable) ==
    IF current_data = <<>> THEN {[file |-> old, saved |-> FALSE, raised |-> FALSE]}
    ELSE IF ~writable THEN {[file |-> old, saved |-> FALSE, raised |-> TRUE]}
    ELSE {[file |-> [written |-> TRUE, period |-> period,
                     rankings |-> RankingEntries(cs, ps)],
           saved |-> TRUE, raised |-> FALSE] :
              cs \in sort_values(current_data), ps \in sort_values(previous_data)}

\* DailyPair with the two dates taken the other way round
DailyPair_Swapped(df) ==
    LET sorted_dates == SortedDates(UniqueDates(df))
        n == Len(sorted_dates)
    IN IF n >= DailyDates THEN {<<sorted_dates[n - 1], sorted_dates[n]>>} ELSE {}

\* WeeklyPair with the oldest date as the previous date
WeeklyPair_Oldest(df) ==
    LET sorted_dates == SortedDates(UniqueDates(df))
        n == Len(sorted_dates)
    IN IF n >= WeeklyDates THEN {<<sorted_dates[n], sorted_dates[1]>>} ELSE {}

\* the (current_date, previous_date) pair of _generate_daily_rankings, as a
\* set: empty when the period is skipped
DailyPair(df) ==
    LET sorted_dates == SortedDates(UniqueDates(df))
        n == Len(sorted_dates)
    IN IF n >= DailyDates THEN {<<sorted_dates[n], sorted_dates[n - 1]>>} ELSE {}

\* the same for _generate_weekly_rankings; its inner else branch
\* (sorted_dates[0]) is under the same condition as the outer if
WeeklyPair(df) ==
    LET sorted_dates == SortedDates(UniqueDates(df))
        n == Len(sorted_dates)
    IN IF n >= WeeklyDates
       THEN {<<sorted_dates[n], IF n >= WeeklyDates
                                THEN sorted_dates[n - WeeklyDates + 1]
                                ELSE sorted_dates[1]>>}
       ELSE {}

\* the loop over the categories of _generate_daily_rankings and
\* _generate_weekly_rankings: the ranking files it can leave, the files it
\* reports as saved and whether it raised, given the files and the reports
\* before (out) and the files that cannot be written (locked).  The loop
\* has no handler: when the call for games raises, the one for movies is
\* not made.
GenerateRankings(df, pair, period, out, locked) ==
    IF pair = {} THEN {out}
    ELSE LET dates == CHOOSE x \in pair : TRUE
             outcome(category) ==
                 calculate_ranking_changes(
                     RowsOf(df, dates[1], category), RowsOf(df, dates[2], category),
                     period, out.files[<<category, period>>],
                     <<category, period>> \notin locked)
             after(category, before, o) ==
                 [files |-> [before.files EXCEPT ![<<category, period>>] = o.file],
                  saved |-> before.saved
                              \cup (IF o.saved THEN {<<category, period>>} ELSE {}),
                  raised |-> o.raised]
             movies(before) ==
                 IF before.raised THEN {before}
                 ELSE {after("movies", before, m) : m \in outcome("movies")}
         IN UNION {movies(after("games", out, g)) : g \in outcome("games")}

generate_daily_rankings(df, out, locked) ==
    GenerateRankings(df, DailyPair(df), "daily", out, locked)

generate_weekly_rankings(df, out, locked) ==
    GenerateRankings(df, WeeklyPair(df), "weekly", out, locked)

\* the try block of update_summary_data (lines 150-155): the weekly
\* rankings are generated after the daily ones, unless those raised
generate_rankings(df, out, locked) ==
    LET weekly(daily) == IF daily.raised THEN {daily}
                         ELSE generate_weekly_rankings(df, daily, locked)
    IN UNION {weekly(daily) : daily \in generate_daily_rankings(df, out, locked)}

\* ------------------------------------------------------------------------
\* Charts
\* ------------------------------------------------------------------------

\* a chart file that was never written; of a written one the model keeps
\* "dates", "titles" and "data", the "updated_at" field is left out
NoChart == [written |-> FALSE, dates |-> <<>>, titles |-> <<>>, data |-> <<>>]

\* pivot_data.iloc[:, :20]
ChartTitles == 20

\* df[df['category'] == category]
CategoryData(df, category) == SelectSeq(df, LAMBDA r : r.category = category)

\* the index of the pivot table: the timestamps of the rows, ascending.
\* Every timestamp of the history was written by strftime, so that
\* to_datetime parses it and no row is dropped; the chart's strftime gives
\* the written timestamp back.
PivotIndex(category_data) ==
    SortedDates({category_data[i].timestamp : i \in 1..Len(category_data)})

\* the columns of the pivot table
PivotColumns(category_data) ==
    {category_data[i].title : i \in 1..Len(category_data)}

\* PivotCell with the peers of the first row of a timestamp and title
PivotCell_First(category_data, timestamp, title) ==
    LET fill(found) == IF found = {} THEN 0
                       ELSE category_data[CHOOSE i \in found : \A j \in found : i <= j].peers
    IN fill({i \in 1..Len(category_data) :
                /\ category_data[i].timestamp = timestamp
                /\ category_data[i].title = title})

\* a cell of pivot_table(values='peers', index='timestamp', columns='title',
\* aggfunc='max') after fillna(0)
PivotCell(category_data, timestamp, title) ==
    LET fill(cells) == IF cells = {} THEN 0
                       ELSE CHOOSE p \in cells : \A q \in cells : q <= p
    IN fill({category_data[i].peers :
                i \in {j \in 1..Len(category_data) :
                          /\ category_data[j].timestamp = timestamp
                          /\ category_data[j].title = title}})

\* pivot_data.loc[most_recent_timestamp].sort_values(ascending=False).index:
\* the default sort is not stable, so columns with equal values may come in
\* any order
RECURSIVE ColumnOrders(_, _)
ColumnOrders(values, rest) ==
    IF rest = {} THEN {<<>>}
    ELSE LET first(top) ==
                 UNION {{<<t>> \o s : s \in ColumnOrders(values, rest \ {t})} : t \in top}
         IN first({t \in rest : \A u \in rest : values[t] >= values[u]})

\* KeptColumns without the cut at 20 columns
KeptColumns_Uncut(sorted_columns) == sorted_columns

\* the columns that pivot_data.iloc[:, :20] keeps
KeptColumns(sorted_columns) ==
    SubSeq(sorted_columns, 1,
           IF Len(sorted_columns) < ChartTitles THEN Len(sorted_columns) ELSE ChartTitles)

\* chart_data: the dates, the titles and the matrix of the pivot table
ChartOf(category_data, index, columns) ==
    [written |-> TRUE,
     dates |-> index,
     titles |-> columns,
     data |-> [d \in 1..Len(index) |->
                 [t \in 1..Len(columns) |->
                     PivotCell(category_data, index[d], columns[t])]]]

\* the contents the chart file of a category can get (lines 331-365); the
\* pivot table of a category without rows is empty and is not sorted
chart_data(category_data) ==
    LET build(index, titles) ==
            IF index = <<>> THEN {ChartOf(category_data, <<>>, <<>>)}
            ELSE {ChartOf(category_data, index, KeptColumns(sorted_columns)) :
                     sorted_columns \in
                         ColumnOrders([t \in titles |->
                                          PivotCell(category_data, index[Len(index)], t)],
                                      titles)}
    IN build(PivotIndex(category_data), PivotColumns(category_data))

\* the rows with their date where the pivot table takes its index from
ByDate(category_data) ==
    [i \in 1..Len(category_data) |->
        [category_data[i] EXCEPT !.timestamp = category_data[i].date]]

\* generate_chart_data of generate_fake_data.py (lines 181-206): the same
\* pivot table with the date of a row as its index, after
\* groupby(['date', 'title'])['peers'].max()
fake_chart_data(df, category) == chart_data(ByDate(CategoryData(df, category)))

\* ChartSkipped that skips nothing
ChartSkipped_Never(full) == FALSE

\* generate_chart_data returns before its loop when the history could not be
\* read or has no row (lines 305-327)
ChartSkipped(full) == full.error # "none" \/ full.df = <<>>

\* the loop over the categories of generate_chart_data (lines 330-373): the
\* chart files it can leave and whether it raised, given the files before
\* (charts) and the files that cannot be written (locked).  The loop has no
\* handler: when open() raises for games, the chart of movies is not made.
generate_charts(df, charts, locked) ==
    LET write(category, out) ==
            IF out.raised THEN {out}
            ELSE IF <<category, "chart">> \in locked
                 THEN {[out EXCEPT !.raised = TRUE]}
            ELSE {[out EXCEPT !.files[category] = c] :
                     c \in chart_data(CategoryData(df, category))}
    IN UNION {write("movies", games) :
                 games \in write("games", [files |-> charts, raised |-> FALSE])}

\* ------------------------------------------------------------------------
\* State
\* ------------------------------------------------------------------------

VARIABLES
    pc,              \* where the run of main() is
    runs,            \* the number of runs that have ended
    now,             \* the wall clock, datetime.now()
    games_data,      \* scrape_data's listings and groups, per category
    games_grouped,
    movies_data,
    movies_grouped,
    item_groups,     \* what group_similar_items returned
    uncaught,        \* the exception that ended the last run of main(),
                     \* "none" when it returned
    summary_file,    \* data-summary/summary_data.csv
    ranking_files,   \* data-summary/<category>_<period>_rankings.json
    chart_files,     \* data-summary/<category>_chart_data.json
    snapshot_files,  \* data-raw/<category>_<kind>_<timestamp>.csv
    unwritable,      \* the ranking and chart files that open() cannot write
    saved,           \* the ranking files the current update_summary_data
                     \* call has reported as saved
    soup,            \* the rows of the table of the page last fetched by
                     \* GamesScraper / MoviesScraper, per category
    archive_soup,    \* the archived page ArchiveScraper fetched last: its
                     \* category and the rows of its table
    archive_data,    \* what ArchiveScraper.scrape returned for that page
    callers,         \* the calls of update_summary_data by processes that
                     \* run at the same time: where each is, its rows and
                     \* what os.path.exists has told it
    overlapped,      \* whether one of these calls has begun while another
                     \* was between its first line and its append
    written,         \* the ranking files that the current call of save_data
                     \* has written so far
    request          \* a call of BaseScraper.make_request: where it is, its
                     \* loop variable, how each attempt has ended, the GETs
                     \* it has made, the seconds it has slept and what it
                     \* has returned

memory == <<games_data, games_grouped, movies_data, movies_grouped, item_groups,
            uncaught>>
disk == <<summary_file, ranking_files, chart_files, snapshot_files, unwritable>>
web == <<soup, archive_soup, archive_data>>
race == <<callers, overlapped>>
vars == <<pc, runs, now, memory, disk, saved, web, race, written, request>>

\* the most processes that call update_summary_data at the same time
MaxCallers == 2
Callers == 1..MaxCallers
NoCall == [at |-> "idle", new_df |-> <<>>, file_exists |-> FALSE]

\* the files of the rankings and of the charts
ArtifactFiles == (Categories \X Periods) \cup (Categories \X {"chart"})

\* make_request has not been called
NoRequest == [at |-> "idle", attempt |-> 0, outcomes |-> <<>>, gets |-> 0,
              slept |-> 0, returned |-> "nothing"]

Init ==
    /\ pc = "start"
    /\ runs = 0
    /\ now = 0
    /\ games_data = <<>> /\ games_grouped = <<>>
    /\ movies_data = <<>> /\ movies_grouped = <<>>
    /\ item_groups = <<>>
    /\ uncaught = "none"
    /\ summary_file = NoFile
    /\ ranking_files = [f \in Categories \X Periods |-> NoRanking]
    /\ chart_files = [category \in Categories |-> NoChart]
    /\ snapshot_files = [f \in Categories \X SnapshotKinds |-> NoSnapshot]
    /\ unwritable = {}
    /\ saved = {}
    /\ soup = [category \in Categories |-> <<>>]
    /\ archive_soup = [category |-> "games", rows |-> <<>>]
    /\ archive_data = <<>>
    /\ callers = [p \in Callers |-> NoCall]
    /\ overlapped = FALSE
    /\ written = {}
    /\ request = NoRequest

DataOf(category) == IF category = "games" THEN games_data ELSE movies_data
GroupedOf(category) == IF category = "games" THEN games_grouped ELSE movies_grouped

\* the positions of save_data around its update_summary_data calls
Before(category) == IF category = "games" THEN "snapshots_saved" ELSE "games_done"
Appended(category) == IF category = "games" THEN "games_appended" ELSE "movies_appended"
After(category) == IF category = "games" THEN "games_done" ELSE "movies_done"

\* ------------------------------------------------------------------------
\* Operations
\* ------------------------------------------------------------------------

\* scrape_data(): both categories are scraped and grouped by key
ScrapeData(Scraped) ==
    /\ pc = "start"
    /\ \E in \in Scraped : LET g == in[1] m == in[2] IN
          /\ games_data' = g
          /\ games_grouped' = IF g # <<>> THEN GroupByKey(g, "games") ELSE <<>>
          /\ movies_data' = m
          /\ movies_grouped' = IF m # <<>> THEN GroupByKey(m, "movies") ELSE <<>>
    /\ pc' = "scraped"
    /\ uncaught' = "none"
    /\ UNCHANGED <<runs, now, item_groups, disk, saved>>
    /\ UNCHANGED <<web, race, written, request>>

\* save_data(games_data, games_grouped, movies_data, movies_grouped) called
\* with groups that were made elsewhere
CallSaveData(Grouped) ==
    /\ pc = "start"
    /\ \E in \in Grouped : LET g == in[1] m == in[2] IN
          /\ games_grouped' = g
          /\ games_data' = [i \in 1..Len(g) |-> g[i].representative]
          /\ movies_grouped' = m
          /\ movies_data' = [i \in 1..Len(m) |-> m[i].representative]
    /\ pc' = "scraped"
    /\ uncaught' = "none"
    /\ UNCHANGED <<runs, now, item_groups, disk, saved>>
    /\ UNCHANGED <<web, race, written, request>>

\* BaseScraper.group_similar_items on the listings of one category
GroupSimilarItems(category) ==
    /\ pc = "scraped"
    /\ item_groups' = group_similar_items(DataOf(category))
    /\ pc' = "grouped"
    /\ UNCHANGED <<runs, now, games_data, games_grouped, movies_data,
                   movies_grouped, uncaught, disk, saved>>
    /\ UNCHANGED <<web, race, written, request>>

\* the process ends after grouping: its memory is gone
Exit ==
    /\ pc \in {"scraped", "grouped"}
    /\ pc' = "start"
    /\ runs' = runs
    /\ games_data' = <<>> /\ games_grouped' = <<>>
    /\ movies_data' = <<>> /\ movies_grouped' = <<>>
    /\ item_groups' = <<>>
    /\ UNCHANGED <<now, uncaught, disk, saved>>
    /\ UNCHANGED <<web, race, written, request>>

\* the first part of save_data: the raw and the grouped snapshot of each
\* category that has data (lines 141-153)
SaveSnapshots ==
    /\ pc = "scraped"
    /\ snapshot_files' =
          [f \in Categories \X SnapshotKinds |->
              IF f[2] = "raw"
              THEN save_raw_data(DataOf(f[1]), f[1], snapshot_files[f], now)
              ELSE save_grouped_data(GroupedOf(f[1]), f[1], snapshot_files[f], now)]
    /\ pc' = "snapshots_saved"
    /\ UNCHANGED <<runs, now, memory, summary_file, ranking_files, chart_files,
                   unwritable, saved>>
    /\ UNCHANGED <<web, race, written, request>>

\* update_summary_data up to the append (lines 116-147).  The clock is read
\* twice, first for the timestamp and then for the date, and may advance in
\* between.
UpdateAppend(category) ==
    /\ pc = Before(category)
    /\ DataOf(category) # <<>> /\ GroupedOf(category) # <<>>
    /\ \E later \in {now, now + 1} :
          LET timestamp_iso == now
              current_date == DateOf(later)
              new_df == current_summary(GroupedOf(category), category,
                                        current_date, timestamp_iso)
          IN /\ summary_file' = to_csv_append(summary_file, new_df)
             /\ now' = later
    /\ saved' = {}
    /\ pc' = Appended(category)
    /\ UNCHANGED <<runs, memory, ranking_files, chart_files, snapshot_files,
                   unwritable>>
    /\ UNCHANGED <<web, race, written, request>>

\* save_data does not call update_summary_data for a category without data
UpdateSkip(category) ==
    /\ pc = Before(category)
    /\ ~(DataOf(category) # <<>> /\ GroupedOf(category) # <<>>)
    /\ pc' = After(category)
    /\ UNCHANGED <<runs, now, memory, disk, saved>>
    /\ UNCHANGED <<web, race, written, request>>

\* update_summary_data from the read-back on (lines 149-159): any exception
\* is caught and reported, and no ranking is generated
UpdateRankings(category) ==
    /\ pc = Appended(category)
    /\ LET full_summary == read_csv(summary_file)
       IN IF full_summary.error # "none"
          THEN UNCHANGED <<ranking_files, saved, written>>
          ELSE \E out \in generate_rankings(
                             full_summary.df,
                             [files |-> ranking_files, saved |-> saved,
                              raised |-> FALSE],
                             unwritable) :
                   /\ ranking_files' = out.files
                   /\ saved' = out.saved
                   /\ written' = written \cup out.saved
    /\ pc' = After(category)
    /\ UNCHANGED <<runs, now, memory, summary_file, chart_files, snapshot_files,
                   unwritable>>
    /\ UNCHANGED <<web, race, request>>

\* ChartRecovery that removes the history file whenever it exists
ChartRecovery_Always(file) == NoFile

\* the exceptions of "except (ValueError, TypeError, ParserError)"
RecoveredErrors == {"ParserError", "EmptyDataError"}

\* what generate_chart_data does to the history file: nothing when it is
\* missing or was read, os.remove when reading it raises a ValueError,
\* TypeError or ParserError, and nothing when it raises anything else
ChartRecovery(file) ==
    IF read_csv(file).error \in RecoveredErrors THEN NoFile ELSE file

\* generate_chart_data, the last call of save_data; main() returns after
\* it, or ends with the exception that the loop over the categories raised
GenerateChartData ==
    /\ pc = "movies_done"
    /\ summary_file' = ChartRecovery(summary_file)
    /\ IF ChartSkipped(read_csv(summary_file))
       THEN chart_files' = chart_files /\ uncaught' = "none"
       ELSE \E out \in generate_charts(read_csv(summary_file).df, chart_files,
                                        unwritable) :
                /\ chart_files' = out.files
                /\ uncaught' = IF out.raised THEN "OSError" ELSE "none"
    /\ pc' = "start"
    /\ runs' = runs + 1
    /\ games_data' = <<>> /\ games_grouped' = <<>>
    /\ movies_data' = <<>> /\ movies_grouped' = <<>>
    /\ written' = {}
    /\ UNCHANGED <<now, item_groups, ranking_files, snapshot_files, unwritable,
                   saved>>
    /\ UNCHANGED <<web, race, request>>

\* ------------------------------------------------------------------------
\* Environment
\* ------------------------------------------------------------------------

\* time passes between two runs
Tick ==
    /\ pc = "start"
    /\ now' = now + 1
    /\ UNCHANGED <<pc, runs, memory, disk, saved>>
    /\ UNCHANGED <<web, race, written, request>>

\* the wall clock is set to the start of some day between two runs
SetClock(Days) ==
    /\ pc = "start"
    /\ \E d \in Days : now' = d * TicksPerDay
    /\ now' # now
    /\ UNCHANGED <<pc, runs, memory, disk, saved>>
    /\ UNCHANGED <<web, race, written, request>>

\* something other than to_csv writes to the history file
CorruptStore ==
    /\ read_csv(summary_file).error = "none"
    /\ summary_file' = [summary_file EXCEPT !.lines = Append(@, GarbageLine)]
    /\ UNCHANGED <<pc, runs, now, memory, ranking_files, chart_files,
                   snapshot_files, unwritable, saved>>
    /\ UNCHANGED <<web, race, written, request>>

\* something other than to_csv leaves the history file empty
TruncateStore ==
    /\ summary_file.exists /\ summary_file.lines # <<>>
    /\ summary_file' = [summary_file EXCEPT !.lines = <<>>]
    /\ UNCHANGED <<pc, runs, now, memory, ranking_files, chart_files,
                   snapshot_files, unwritable, saved>>
    /\ UNCHANGED <<web, race, written, request>>

\* a ranking file or a chart file can no longer be opened for writing
LockFile ==
    /\ pc = "start"
    /\ \E f \in ArtifactFiles \ unwritable : unwritable' = unwritable \cup {f}
    /\ UNCHANGED <<pc, runs, now, memory, summary_file, ranking_files,
                   chart_files, snapshot_files, saved>>
    /\ UNCHANGED <<web, race, written, request>>

\* the steps of save_data
SaveData ==
    \/ SaveSnapshots
    \/ \E category \in Categories : UpdateAppend(category)
    \/ \E category \in Categories : UpdateSkip(category)
    \/ \E category \in Categories : UpdateRankings(category)
    \/ GenerateChartData

\* ------------------------------------------------------------------------
\* Grouping: scrape_data and group_similar_items on scraped listings
\* ------------------------------------------------------------------------

\* "a-b", "ab", "a 2020 b": the first and the third share a movie key, the
\* last two share a game key
TitleInputs ==
    {<<"a", "-", "b">>, <<"a", "b">>, <<"a", " ", "2", "0", "2", "0", " ", "b">>}
\* (seeders, leechers) of a listing
CountInputs == {<<1, 0>>, <<1, 1>>, <<2, 1>>}

\* the most listings one scrape returns, over both categories
MaxListings == 3

ListingInputs(category) ==
    {Listing(t, c[1], c[2], category) : t \in TitleInputs, c \in CountInputs}

SeqsUpTo(S, n) == UNION {[1..k -> S] : k \in 0..n}

ScrapeInputs ==
    UNION {{<<g, m>> : g \in [1..k -> ListingInputs("games")],
                       m \in SeqsUpTo(ListingInputs("movies"), MaxListings - k)} :
              k \in 0..MaxListings}

NextGroup ==
    \/ ScrapeData(ScrapeInputs)
    \/ \E category \in Categories : GroupSimilarItems(category)
    \/ Exit

SpecGroup == Init /\ [][NextGroup]_vars

\* the sum of the first n numbers of the sequence s
RECURSIVE SumSeq(_, _)
SumSeq(s, n) == IF n = 0 THEN 0 ELSE s[n] + SumSeq(s, n - 1)

\* the totals are the sums over the members, whose seeders, leechers and
\* peers are given as sequences
TotalsExact(total_seeders, total_leechers, total_peers, seeders, leechers, peers) ==
    /\ total_peers = total_seeders + total_leechers
    /\ total_seeders = SumSeq(seeders, Len(seeders))
    /\ total_leechers = SumSeq(leechers, Len(leechers))
    /\ total_peers = SumSeq(peers, Len(peers))

\* C1: in every group of either grouping strategy, total_peers is
\* total_seeders + total_leechers, and the three totals are the sums of the
\* members' seeders, leechers and peers.
C1_GroupTotals ==
    /\ \A grouped \in {games_grouped, movies_grouped} :
          \A g \in 1..Len(grouped) :
              LET members == grouped[g].torrents
              IN TotalsExact(grouped[g].total_seeders, grouped[g].total_leechers,
                             grouped[g].total_peers,
                             [i \in 1..Len(members) |-> members[i].seeders],
                             [i \in 1..Len(members) |-> members[i].leechers],
                             [i \in 1..Len(members) |->
                                 members[i].seeders + members[i].leechers])
    /\ \A g \in 1..Len(item_groups) :
          LET members == item_groups[g].versions
          IN TotalsExact(item_groups[g].total_seeders, item_groups[g].total_leechers,
                         item_groups[g].total_peers,
                         [i \in 1..Len(members) |-> members[i].seeders],
                         [i \in 1..Len(members) |-> members[i].leechers],
                         [i \in 1..Len(members) |-> members[i].total_peers])

\* both strategies have merged listings with different counts into a group
C1_Witness ==
    /\ \E g \in 1..Len(games_grouped) :
          /\ Len(games_grouped[g].torrents) >= 2
          /\ games_grouped[g].torrents[1].seeders # games_grouped[g].torrents[2].seeders
    /\ \E g \in 1..Len(item_groups) :
          /\ Len(item_groups[g].versions) >= 2
          /\ item_groups[g].versions[1].leechers # item_groups[g].versions[2].leechers

\* the listings of data whose grouping key is key, in input order
WithKey(data, category, key) ==
    SelectSeq(data, LAMBDA x : GroupingKey(category, x.title).key = key)

\* the position in data of the first listing whose grouping key is key
FirstSeen(data, category, key) ==
    CHOOSE i \in 1..Len(data) :
        /\ GroupingKey(category, data[i].title).key = key
        /\ \A j \in 1..(i - 1) : GroupingKey(category, data[j].title).key # key

Partitioned(data, grouped, category) ==
    LET KeyOfGroup(g) == GroupingKey(category, grouped[g].torrents[1].title).key
    IN /\ \A g \in 1..Len(grouped) :
             /\ grouped[g].torrents # <<>>
             /\ grouped[g].torrents = WithKey(data, category, KeyOfGroup(g))
       /\ \A i \in 1..Len(data) : \E g \in 1..Len(grouped) :
             KeyOfGroup(g) = GroupingKey(category, data[i].title).key
       /\ \A g, h \in 1..Len(grouped) :
             g < h => FirstSeen(data, category, KeyOfGroup(g))
                        < FirstSeen(data, category, KeyOfGroup(h))

\* C2: grouping by key partitions the listings: a group holds exactly the
\* listings of one key, in input order, every listing is in the group of its
\* key, and the groups come in the order their keys were first seen.
C2_KeyPartition ==
    /\ Partitioned(games_data, games_grouped, "games")
    /\ Partitioned(movies_data, movies_grouped, "movies")

\* three listings whose keys are k1, k2, k1: two groups, and the first one
\* holds the first and the third listing
C2_Witness ==
    /\ Len(games_data) = 3
    /\ Len(games_grouped) = 2
    /\ games_grouped[1].torrents = <<games_data[1], games_data[3]>>
    /\ games_data[1].title # games_data[3].title

\* C17: the representative of a group made by key is a member with the most
\* peers of the group, and the group's display title is the display title
\* that the grouping key function derives from that member's title.
C17_RepresentativeTitle ==
    \A category \in Categories :
        \A g \in 1..Len(GroupedOf(category)) :
            LET group == GroupedOf(category)[g]
            IN /\ \E i \in 1..Len(group.torrents) :
                     /\ group.torrents[i].title = group.representative.title
                     /\ group.torrents[i].seeders = group.representative.seeders
                     /\ group.torrents[i].leechers = group.representative.leechers
               /\ \A i \in 1..Len(group.torrents) :
                     group.torrents[i].seeders + group.torrents[i].leechers
                         <= group.representative.seeders + group.representative.leechers
               /\ group.representative.clean_title
                     = GroupingKey(category, group.representative.title).display

\* the number of times x occurs in the sequence s
Occurrences(s, x) == Cardinality({i \in 1..Len(s) : s[i] = x})

\* C26: group_similar_items partitions the listings it is given: every
\* listing is in the versions of exactly one group.  The representative of a
\* group is its first version and has at least the peers of every version;
\* every other version is similar to it, and to the representative of no
\* group before it, and no representative is similar to an earlier one.
\* The groups come with non-increasing peers of their representatives.
C26_SimilarityGroups ==
    pc = "grouped" =>
        \A category \in Categories :
            (item_groups # <<>> /\ item_groups[1].representative.category = category) =>
                /\ \A i \in 1..Len(DataOf(category)) :
                      SumSeq([g \in 1..Len(item_groups) |->
                                 Occurrences(item_groups[g].versions, DataOf(category)[i])],
                             Len(item_groups))
                          = Occurrences(DataOf(category), DataOf(category)[i])
                /\ \A g \in 1..Len(item_groups) :
                      /\ item_groups[g].versions # <<>>
                      /\ item_groups[g].representative = item_groups[g].versions[1]
                      /\ \A v \in 1..Len(item_groups[g].versions) :
                            /\ Occurrences(DataOf(category), item_groups[g].versions[v]) > 0
                            /\ item_groups[g].versions[v].total_peers
                                   <= item_groups[g].representative.total_peers
                            /\ v > 1 => IsSimilar(item_groups[g].representative.title,
                                                   item_groups[g].versions[v].title)
                            /\ \A h \in 1..(g - 1) :
                                  ~IsSimilar(item_groups[h].representative.title,
                                             item_groups[g].versions[v].title)
                /\ \A g \in 1..(Len(item_groups) - 1) :
                      item_groups[g].representative.total_peers
                          >= item_groups[g + 1].representative.total_peers

\* a listing that is similar to the representatives of both groups, which
\* are not similar to one another, is in the first group, and it came first
\* in the input
C26_Witness ==
    /\ pc = "grouped"
    /\ Len(item_groups) = 2
    /\ Len(item_groups[1].versions) = 2
    /\ IsSimilar(item_groups[2].representative.title, item_groups[1].versions[2].title)
    /\ \E category \in Categories :
          /\ DataOf(category) # <<>>
          /\ DataOf(category)[1] = item_groups[1].versions[2]
    /\ item_groups[1].versions[2].total_peers < item_groups[2].representative.total_peers

\* the record as the scraper has made it
AsScraped(listing, category) ==
    listing = Listing(listing.title, listing.seeders, listing.leechers, category)

\* C24: after the grouping every raw listing is as the scraper has made it,
\* in games_data and movies_data and in the torrents of the groups, which
\* hold the raw listings themselves; the representative of a group is a
\* member of the group in everything but clean_title, which is the display
\* title of the group.
C24_RawListingsKept ==
    \A category \in Categories :
        /\ \A i \in 1..Len(DataOf(category)) : AsScraped(DataOf(category)[i], category)
        /\ \A g \in 1..Len(GroupedOf(category)) :
              LET group == GroupedOf(category)[g]
              IN /\ \A i \in 1..Len(group.torrents) :
                       /\ AsScraped(group.torrents[i], category)
                       /\ \E j \in 1..Len(DataOf(category)) :
                             DataOf(category)[j] = group.torrents[i]
                 /\ \E i \in 1..Len(group.torrents) :
                       group.representative
                           = [group.torrents[i] EXCEPT
                                 !.clean_title = group.representative.clean_title]

\* a group of two movies whose representative shows another title than the
\* listing it is a copy of
C24_Witness ==
    /\ pc \in {"scraped", "grouped"}
    /\ \E g \in 1..Len(movies_grouped) :
          /\ Len(movies_grouped[g].torrents) = 2
          /\ \A i \in 1..2 :
                movies_grouped[g].torrents[i].clean_title
                    # movies_grouped[g].representative.clean_title

\* ------------------------------------------------------------------------
\* Runs of main(): scrape_data, then save_data, while time passes and the
\* history file may be damaged from outside
\* ------------------------------------------------------------------------

MaxRuns == 2
\* the clock stops being advanced between runs at this instant
MaxTime == 3

\* what the games scraper returns in a run: nothing, one listing, or two
\* listings with different game keys
GamesRuns ==
    {<<>>,
     <<Listing(<<"a", "b">>, 2, 1, "games")>>,
     <<Listing(<<"a", "-", "b">>, 1, 0, "games"),
       Listing(<<"a", " ", "2", "0", "2", "0", " ", "b">>, 1, 1, "games")>>}

\* what the movies scraper returns in a run: nothing, or two listings with
\* one movie key
MoviesRuns ==
    {<<>>,
     <<Listing(<<"a", "-", "b">>, 1, 1, "movies"),
       Listing(<<"a", " ", "2", "0", "2", "0", " ", "b">>, 2, 1, "movies")>>}

RunInputs == GamesRuns \X MoviesRuns

Next ==
    \/ runs < MaxRuns /\ ScrapeData(RunInputs)
    \/ SaveData
    \/ now < MaxTime /\ Tick
    \/ CorruptStore

Spec == Init /\ [][Next]_vars

IsPrefix(s, t) == Len(s) <= Len(t) /\ \A i \in 1..Len(s) : s[i] = t[i]

\* the step of generate_chart_data that deletes a history file it cannot parse
RecoveryStep ==
    /\ pc = "movies_done" /\ pc' = "start"
    /\ read_csv(summary_file).error \in RecoveredErrors

\* the part of update_summary_data that generates the rankings
RankingStep == \E category \in Categories :
    pc = Appended(category) /\ pc' = After(category)

ChartStep == pc = "movies_done" /\ pc' = "start"

\* C3: the history is append-only.  Every step other than the corruption
\* recovery of generate_chart_data keeps the file and every line of it at
\* its position, and the ranking steps and the chart steps other than the
\* recovery leave the file as it is.
C3_AppendOnly ==
    [][/\ ~RecoveryStep =>
            /\ summary_file.exists => summary_file'.exists
            /\ IsPrefix(summary_file.lines, summary_file'.lines)
       /\ RankingStep => summary_file' = summary_file
       /\ (ChartStep /\ ~RecoveryStep) => summary_file' = summary_file]_vars

\* two runs have appended to the history, none of it was lost, and the
\* rankings and the chart were generated after each
C3_Witness ==
    /\ runs = 2 /\ pc = "start"
    /\ read_csv(summary_file).error = "none"
    /\ \E i, j \in 1..Len(summary_file.lines) :
          /\ i < j
          /\ summary_file.lines[i].kind = "row" /\ summary_file.lines[j].kind = "row"
          /\ summary_file.lines[i].timestamp < summary_file.lines[j].timestamp

\* the call update_summary_data(_, groups, category) up to its append
AppendStep(category) == pc = Before(category) /\ pc' = Appended(category)

\* C4: a call of update_summary_data appends one record per group, in group
\* order, with the group's display title and totals and the category, and
\* one date and one timestamp shared by all the records of the call.
C4_OneRecordPerGroup ==
    [][\A category \in Categories : AppendStep(category) =>
          LET groups == GroupedOf(category)
              old == summary_file.lines
              new == summary_file'.lines
              first == Len(new) - Len(groups)
          IN /\ first >= Len(old) /\ first <= Len(old) + 1
             /\ IsPrefix(old, new)
             /\ \A i \in (Len(old) + 1)..first : new[i] = HeaderLine
             /\ \E date \in 0..(now + 1), timestamp \in 0..(now + 1) :
                   \A g \in 1..Len(groups) :
                       new[first + g] =
                           [kind |-> "row",
                            title |-> groups[g].representative.clean_title,
                            seeders |-> groups[g].total_seeders,
                            leechers |-> groups[g].total_leechers,
                            peers |-> groups[g].total_peers,
                            category |-> category,
                            date |-> date,
                            timestamp |-> timestamp]]_vars

\* a call for two games groups has appended two rows to a history that
\* held rows already
C4_Witness ==
    /\ pc = "games_appended"
    /\ Len(games_grouped) = 2
    /\ Len(summary_file.lines) >= 4
    /\ summary_file.lines[2].kind = "row"
    /\ summary_file.lines[Len(summary_file.lines)].kind = "row"
    /\ summary_file.lines[2].timestamp
         < summary_file.lines[Len(summary_file.lines)].timestamp
    /\ summary_file.lines[Len(summary_file.lines)].title
         = games_grouped[2].representative.clean_title

\* ------------------------------------------------------------------------
\* Daily rankings: save_data is called with groups on a few days, and the
\* clock may be set forward or back between two runs
\* ------------------------------------------------------------------------

MaxDailyRuns == 3
\* the days the clock is set to between two runs
ClockDays == {0, 1}

\* a group the way save_data gets it, with its display title and totals
Group(title, seeders, leechers, category) ==
    [representative |-> [Listing(title, seeders, leechers, category)
                             EXCEPT !.clean_title = title],
     total_seeders |-> seeders,
     total_leechers |-> leechers,
     total_peers |-> seeders + leechers,
     torrents |-> <<Listing(title, seeders, leechers, category)>>]

\* {A: 100 peers, B: 50 peers}
DayOne == <<Group(<<"A">>, 70, 30, "games"), Group(<<"B">>, 30, 20, "games")>>
\* {A: 80 peers, C: 90 peers}
DayTwo == <<Group(<<"A">>, 50, 30, "games"), Group(<<"C">>, 60, 30, "games")>>
\* two groups with the same peers
Tied == <<Group(<<"B">>, 30, 20, "games"), Group(<<"C">>, 25, 25, "games")>>
MovieDay == <<Group(<<"A">>, 1, 1, "movies")>>

DailyInputs ==
    {<<DayOne, <<>>>>, <<DayTwo, <<>>>>, <<Tied, <<>>>>, <<DayTwo, MovieDay>>}

NextDaily ==
    \/ runs < MaxDailyRuns /\ CallSaveData(DailyInputs)
    \/ SaveData
    \/ runs < MaxDailyRuns /\ SetClock(ClockDays)

SpecDaily == Init /\ [][NextDaily]_vars

\* the history could be read
Readable == read_csv(summary_file).error = "none"
\* the rows of the history
History == read_csv(summary_file).df

\* the rows of a category, and those of one of its dates
CategoryRows(category) == SelectSeq(History, LAMBDA r : r.category = category)
RowsOn(rows, date) == SelectSeq(rows, LAMBDA r : r.date = date)
DatesOf(rows) == {rows[i].date : i \in 1..Len(rows)}

\* the k-th most recent of the dates: k - 1 of them are later
KthLatest(dates, k) == CHOOSE d \in dates : Cardinality({e \in dates : e > d}) = k - 1

\* the rankings that comparing the current rows with the previous rows gives
Rankings(current, previous) ==
    {RankingEntries(cs, ps) : cs \in sort_values(current), ps \in sort_values(previous)}

\* C5: a daily ranking of a category is produced exactly when the history
\* holds at least 2 distinct dates for that category, and it compares the
\* category's latest date with the category's second-latest date.
C5_DailyPerCategory ==
    [][(RankingStep /\ Readable) =>
          \A category \in Categories :
              LET rows == CategoryRows(category)
                  dates == DatesOf(rows)
                  file == <<category, "daily">>
              IN IF Cardinality(dates) >= 2
                 THEN /\ file \in saved'
                      /\ ranking_files'[file].rankings \in
                            Rankings(RowsOn(rows, KthLatest(dates, 1)),
                                     RowsOn(rows, KthLatest(dates, 2)))
                 ELSE /\ file \notin saved'
                      /\ ranking_files'[file] = ranking_files[file]]_vars

\* the positions a row can take when rows is sorted by peers, descending
PositionsOf(rows, i) ==
    {p \in 1..Len(rows) :
        /\ p > Cardinality({j \in 1..Len(rows) : rows[j].peers > rows[i].peers})
        /\ p <= Cardinality({j \in 1..Len(rows) : rows[j].peers >= rows[i].peers})}

\* the rows a ranking of this period is compared against: those of the
\* k-th most recent date of the history, k = 2 for daily and 7 for weekly
PreviousRows(category, period) ==
    LET dates == DatesOf(History)
        k == IF period = "daily" THEN 2 ELSE 7
    IN IF Cardinality(dates) >= k
       THEN RowsOn(CategoryRows(category), KthLatest(dates, k))
       ELSE <<>>

\* C7: an entry whose title occurs in the previous date's rows of the
\* category has as previous_rank a position of that title in those rows
\* sorted by peers, descending, and rank_change = previous_rank - current_rank;
\* any other entry has no previous_rank and rank_change "new".
C7_RankChange ==
    \A file \in saved : Readable =>
        LET previous == PreviousRows(file[1], file[2])
            rankings == ranking_files[file].rankings
        IN \A e \in 1..Len(rankings) :
              LET entry == rankings[e]
                  rows == {i \in 1..Len(previous) : previous[i].title = entry.title}
              IN IF rows # {}
                 THEN \E i \in rows : \E p \in PositionsOf(previous, i) :
                         /\ entry.previous_rank = Rank(p)
                         /\ entry.rank_change = Change(p - entry.current_rank)
                 ELSE /\ entry.previous_rank = None
                      /\ entry.rank_change = New

\* a daily ranking has an entry that moved up, one that moved down and a
\* new one
C7_Witness ==
    /\ <<"games", "daily">> \in saved /\ Readable
    /\ \E i, j, k \in 1..Len(ranking_files[<<"games", "daily">>].rankings) :
          LET rankings == ranking_files[<<"games", "daily">>].rankings
          IN /\ rankings[i].rank_change = Change(1)
             /\ rankings[j].rank_change = Change(-1)
             /\ rankings[k].rank_change = New /\ rankings[k].previous_rank = None

\* the file of a ranking holds the rankings that comparing the category's
\* rows of the latest date with its rows of the period's earlier date gives
Recomputed(file, category, period) ==
    /\ file.written
    /\ file.period = period
    /\ file.rankings \in
          Rankings(RowsOn(CategoryRows(category), KthLatest(DatesOf(History), 1)),
                   PreviousRows(category, period))

\* the history has the dates that the rankings of the period need
GateOpen(period) ==
    Cardinality(DatesOf(History)) >= (IF period = "daily" THEN DailyDates ELSE WeeklyDates)

\* C27: when the rankings are generated from a history that has the dates a
\* period needs, the file of every category for that period afterwards holds
\* the rankings computed from the category's current and previous rows: no
\* entries when the category has no row on the current date.
C27_RankingsRecomputed ==
    [][(RankingStep /\ Readable /\ unwritable = {}) =>
          \A category \in Categories, period \in Periods :
              GateOpen(period) =>
                  Recomputed(ranking_files'[<<category, period>>], category, period)]_vars

\* the part of C27 about the categories that have a row on the current date
RecomputedWhenCurrent ==
    [][(RankingStep /\ Readable /\ unwritable = {}) =>
          \A category \in Categories, period \in Periods :
              (/\ GateOpen(period)
               /\ RowsOn(CategoryRows(category), KthLatest(DatesOf(History), 1)) # <<>>) =>
                  Recomputed(ranking_files'[<<category, period>>], category, period)]_vars

\* C28: a chart file is written by the last step of save_data only, and
\* when that step is taken every ranking file the run has written was
\* written by the call of update_summary_data that appended the last rows of
\* the run.
C28_ArtifactsAfterLastAppend ==
    [][/\ chart_files' # chart_files => ChartStep
       /\ ChartStep => written \subseteq saved]_vars

\* the part of C28 about the charts, and about the ranking files of the
\* categories that have a row on the latest date of the history
ChartsAfterLastAppend ==
    [][/\ chart_files' # chart_files => ChartStep
       /\ (ChartStep /\ Readable) =>
             \A file \in written :
                 RowsOn(CategoryRows(file[1]), KthLatest(DatesOf(History), 1)) # <<>>
                     => file \in saved]_vars

\* C29: the date of every row of the summary file is the day of the row's
\* own timestamp.
C29_DateOfTimestamp ==
    \A i \in 1..Len(summary_file.lines) :
        summary_file.lines[i].kind = "row" =>
            summary_file.lines[i].date = DateOf(summary_file.lines[i].timestamp)

\* the part of C29 about the calls in which the clock does not pass midnight
\* between the two reads
DateOfTimestampSameDay ==
    [][\A category \in Categories :
          (UpdateAppend(category) /\ DateOf(now') = DateOf(now)) =>
              \A i \in (Len(summary_file.lines) + 1)..Len(summary_file'.lines) :
                  summary_file'.lines[i].kind = "row" =>
                      summary_file'.lines[i].date
                         = DateOf(summary_file'.lines[i].timestamp)]_vars

\* C8: no title appears more than once in a ranking output.
C8_OneRowPerTitle ==
    \A file \in Categories \X Periods :
        \A i, j \in 1..Len(ranking_files[file].rankings) :
            i # j => ranking_files[file].rankings[i].title
                       # ranking_files[file].rankings[j].title

\* the history has games rows only, of two dates: {A: 100, B: 50} on the
\* first and {A: 80, C: 90} on the second
ScenarioHistory ==
    /\ Readable
    /\ Len(History) = 4
    /\ \A i \in 1..4 : History[i].category = "games"
    /\ \E day1, day2 \in DatesOf(History) :
          /\ day1 < day2
          /\ {<<History[i].title, History[i].peers, History[i].date>> : i \in 1..4}
               = {<<<<"A">>, 100, day1>>, <<<<"B">>, 50, day1>>,
                  <<<<"A">>, 80, day2>>, <<<<"C">>, 90, day2>>}

\* C10: on the scenario's history the daily ranking is C at rank 1, new, then
\* A at rank 2 with previous rank 1 and change -1, and B is not in it.
C10_Scenario ==
    (ScenarioHistory /\ pc = "games_done") =>
        /\ <<"games", "daily">> \in saved
        /\ LET rankings == ranking_files[<<"games", "daily">>].rankings
           IN /\ Len(rankings) = 2
              /\ rankings[1].title = <<"C">> /\ rankings[1].current_rank = 1
              /\ rankings[1].previous_rank = None /\ rankings[1].rank_change = New
              /\ rankings[1].peers = 90
              /\ rankings[2].title = <<"A">> /\ rankings[2].current_rank = 2
              /\ rankings[2].previous_rank = Rank(1)
              /\ rankings[2].rank_change = Change(-1)
              /\ rankings[2].peers = 80

\* the rankings were generated on the scenario's history, whose second day
\* was appended last
C10_Witness ==
    /\ ScenarioHistory /\ pc = "games_done"
    /\ History[4].title = <<"C">>

\* the most peers among the given rows, 0 when there is none
MaxPeers(rows) ==
    IF rows = <<>> THEN 0
    ELSE CHOOSE p \in {rows[i].peers : i \in 1..Len(rows)} :
             \A i \in 1..Len(rows) : rows[i].peers <= p

\* a chart is a full matrix over its dates and titles, and the cell of a
\* date and a title is the most peers of the rows that have that title and
\* that date as their timestamp
FullMatrix(chart, rows) ==
    /\ Len(chart.data) = Len(chart.dates)
    /\ \A d \in 1..Len(chart.dates) :
          /\ DOMAIN chart.data[d] = 1..Len(chart.titles)
          /\ \A t \in 1..Len(chart.titles) :
                chart.data[d][t] =
                    MaxPeers(SelectSeq(rows, LAMBDA r : /\ r.timestamp = chart.dates[d]
                                                          /\ r.title = chart.titles[t]))

\* C11: every chart that generate_chart_data writes has one row of cells
\* per entry of dates and one cell per title in each row, and the cell of a
\* timestamp and a title is the most peers that the category's history holds
\* for them, 0 when it holds none.  The chart built per date by
\* generate_fake_data.py has the same shape over the dates.
C11_ChartMatrix ==
    [][(ChartStep /\ Readable) =>
          \A category \in Categories :
              /\ (History # <<>> \/ chart_files'[category] # chart_files[category]) =>
                    /\ chart_files'[category].written
                    /\ FullMatrix(chart_files'[category], CategoryRows(category))
              /\ \A chart \in fake_chart_data(History, category) :
                    FullMatrix(chart, ByDate(CategoryRows(category)))]_vars

\* the games chart was written from a history that has a title twice at one
\* timestamp, with different peers and the fewer first, and a title that is
\* missing at some timestamp
C11_Witness ==
    /\ pc = "start" /\ Readable /\ chart_files["games"].written
    /\ chart_files["games"].dates = PivotIndex(CategoryRows("games"))
    /\ \E i, j \in 1..Len(History) :
          /\ i < j
          /\ History[i].category = "games" /\ History[j].category = "games"
          /\ History[i].title = History[j].title
          /\ History[i].timestamp = History[j].timestamp
          /\ History[i].peers < History[j].peers
          /\ \E d \in 1..Len(chart_files["games"].dates) :
             \E t \in 1..Len(chart_files["games"].titles) :
                /\ chart_files["games"].dates[d] = History[i].timestamp
                /\ chart_files["games"].titles[t] = History[i].title
                /\ chart_files["games"].data[d][t] = History[j].peers
    /\ \E d \in 1..Len(chart_files["games"].dates) :
       \E t \in 1..Len(chart_files["games"].titles) :
          chart_files["games"].data[d][t] = 0

\* ------------------------------------------------------------------------
\* Weekly rankings: one run a day at most, over more than a week, days
\* without a run in between, and a history file that may be damaged
\* ------------------------------------------------------------------------

\* the last day of the clock
MaxWeekDay == 8

\* A before B, and B before A
WeekUp == <<Group(<<"A">>, 2, 1, "games"), Group(<<"B">>, 1, 1, "games")>>
WeekDown == <<Group(<<"A">>, 1, 0, "games"), Group(<<"B">>, 2, 0, "games")>>

WeekInputs == {<<WeekUp, <<>>>>, <<WeekDown, <<>>>>}

\* the history has no row of today
NoRunToday ==
    \A i \in 1..Len(summary_file.lines) :
        summary_file.lines[i].kind = "row" => summary_file.lines[i].date # DateOf(now)

NextWeekly ==
    \/ NoRunToday /\ CallSaveData(WeekInputs)
    \/ SaveData
    \/ DateOf(now) < MaxWeekDay /\ SetClock({DateOf(now) + 1})
    \/ pc = "start" /\ CorruptStore

SpecWeekly == Init /\ [][NextWeekly]_vars

\* C6: a weekly ranking is written only when the history holds at least 7
\* distinct dates, and then it compares the latest date with the 7th most
\* recent one; with fewer than 7 dates the ranking step ends normally and
\* leaves every weekly ranking as it was.
C6_WeeklySeventh ==
    [][(RankingStep /\ Readable) =>
          LET dates == DatesOf(History)
          IN \A category \in Categories :
                LET file == <<category, "weekly">>
                    rows == CategoryRows(category)
                IN /\ (file \in saved' \/ ranking_files'[file] # ranking_files[file]) =>
                          /\ Cardinality(dates) >= 7
                          /\ ranking_files'[file].period = "weekly"
                          /\ ranking_files'[file].rankings \in
                                Rankings(RowsOn(rows, KthLatest(dates, 1)),
                                         RowsOn(rows, KthLatest(dates, 7)))
                   /\ Cardinality(dates) < 7 =>
                          /\ file \notin saved'
                          /\ ranking_files'[file] = ranking_files[file]
                          /\ pc' \in {"games_done", "movies_done"}]_vars

\* a weekly ranking was written from a history of 8 dates whose oldest date
\* and 7th most recent date rank A and B differently
C6_Witness ==
    /\ <<"games", "weekly">> \in saved /\ Readable
    /\ Cardinality(DatesOf(History)) = 8
    /\ LET oldest == RowsOn(History, KthLatest(DatesOf(History), 8))
           seventh == RowsOn(History, KthLatest(DatesOf(History), 7))
       IN oldest[1].peers > oldest[2].peers /\ seventh[1].peers < seventh[2].peers

\* ------------------------------------------------------------------------
\* Long rankings: one run a day with up to MaxRows groups
\* ------------------------------------------------------------------------

\* the most groups of a run
MaxRows == 22
\* the last day of the clock
MaxTopDay == 1

\* a title for each number
TopTitle(i) == [k \in 1..i |-> "a"]

\* n groups with peers rising, falling, and rising with the two last equal
Rising(n) == [i \in 1..n |-> Group(TopTitle(i), i, 0, "games")]
Falling(n) == [i \in 1..n |-> Group(TopTitle(i), n + 1 - i, 1, "games")]
TiedLow(n) == [i \in 1..n |-> Group(TopTitle(i), IF i = 1 THEN 2 ELSE i, 0, "games")]

\* as many rows as the cut keeps, one more, and the most: the titles a run
\* leaves out are few, and they are the ones the chart's sort of the most
\* recent values may put in any order
TopSizes == {TopN, TopN + 1, MaxRows}

TopInputs ==
    {<<r, <<>>>> : r \in UNION {{Rising(n), Falling(n), TiedLow(n)} : n \in TopSizes}}

NextTop ==
    \/ NoRunToday /\ CallSaveData(TopInputs)
    \/ SaveData
    \/ DateOf(now) < MaxTopDay /\ SetClock({DateOf(now) + 1})

SpecTop == Init /\ [][NextTop]_vars

\* C9: a ranking has at most 20 entries, ranked 1, 2, ..., n in output
\* order, with peers non-increasing; its entries are rows of the current
\* date, and no row of that date that is left out has more peers than an
\* entry.
C9_TopTwenty ==
    \A file \in Categories \X Periods :
        LET rankings == ranking_files[file].rankings
            n == Len(rankings)
        IN /\ n <= 20
           /\ \A i \in 1..n : rankings[i].current_rank = i
           /\ \A i \in 1..n : \A j \in (i + 1)..n : rankings[i].peers >= rankings[j].peers
           /\ (file \in saved /\ Readable) =>
                 LET current == RowsOn(CategoryRows(file[1]), KthLatest(DatesOf(History), 1))
                     In(i) == \E e \in 1..n :
                                 /\ rankings[e].title = current[i].title
                                 /\ rankings[e].peers = current[i].peers
                                 /\ rankings[e].seeders = current[i].seeders
                                 /\ rankings[e].leechers = current[i].leechers
                 IN /\ n = IF Len(current) < 20 THEN Len(current) ELSE 20
                    /\ Cardinality({i \in 1..Len(current) : In(i)}) = n
                    /\ \A i \in 1..Len(current) : ~In(i) =>
                          \A e \in 1..n : rankings[e].peers >= current[i].peers

\* a ranking of 20 entries was written from 22 rows, after another day's
\* rows
C9_Witness ==
    /\ <<"games", "daily">> \in saved /\ Readable
    /\ Len(ranking_files[<<"games", "daily">>].rankings) = 20
    /\ Len(RowsOn(History, KthLatest(DatesOf(History), 1))) = 22
    /\ ranking_files[<<"games", "daily">>].rankings[20].previous_rank # None

\* the value of a title at the most recent timestamp of the rows
LatestValue(rows, title) ==
    LET at(latest) == MaxPeers(SelectSeq(rows, LAMBDA r : /\ r.timestamp = latest
                                                          /\ r.title = title))
    IN at(CHOOSE m \in {rows[i].timestamp : i \in 1..Len(rows)} :
              \A i \in 1..Len(rows) : rows[i].timestamp <= m)

\* C12: a chart that generate_chart_data writes has at most 20 titles, in
\* the order of non-increasing value at the most recent timestamp; no title
\* of the category that it leaves out has a greater value there than a
\* title it holds; and its dates are strictly ascending.
C12_ChartTitles ==
    [][(ChartStep /\ Readable) =>
          \A category \in Categories :
              LET holds(chart, rows, n, value) ==
                      /\ n <= 20
                      /\ \A t \in 1..n : \A u \in (t + 1)..n :
                            /\ chart.titles[t] # chart.titles[u]
                            /\ value[chart.titles[t]] >= value[chart.titles[u]]
                      /\ \A t \in 1..n : chart.titles[t] \in DOMAIN value
                      /\ \A title \in DOMAIN value :
                            (\A t \in 1..n : chart.titles[t] # title) =>
                                /\ n = 20
                                /\ \A t \in 1..n : value[title] <= value[chart.titles[t]]
                      /\ \A d \in 1..Len(chart.dates) : \A e \in (d + 1)..Len(chart.dates) :
                            chart.dates[d] < chart.dates[e]
                  values(rows) ==
                      [title \in {rows[i].title : i \in 1..Len(rows)} |->
                          LatestValue(rows, title)]
                  on(rows) ==
                      rows # <<>> =>
                          holds(chart_files'[category], rows,
                                Len(chart_files'[category].titles), values(rows))
              IN on(CategoryRows(category))]_vars

\* the games chart holds 20 of the 22 titles of a history of two timestamps,
\* and its first title was not the first at the earlier timestamp
C12_Witness ==
    /\ pc = "start" /\ Readable
    /\ Len(chart_files["games"].titles) = 20
    /\ Len(chart_files["games"].dates) = 2
    /\ Cardinality({History[i].title : i \in 1..Len(History)}) = 22
    /\ chart_files["games"].data[2][1] > chart_files["games"].data[2][20]
    /\ chart_files["games"].data[1][1] < chart_files["games"].data[1][20]

\* ------------------------------------------------------------------------
\* Faults: between two runs the history file may be damaged or emptied from
\* outside, and a ranking or chart file may become impossible to write
\* ------------------------------------------------------------------------

MaxFaultRuns == 2
\* the most files that cannot be written
MaxLocked == 1

FaultInputs == {<<DayOne, MovieDay>>, <<DayTwo, MovieDay>>, <<<<>>, <<>>>>}

NextFault ==
    \/ runs < MaxFaultRuns /\ CallSaveData(FaultInputs)
    \/ SaveData
    \/ runs < MaxFaultRuns /\ SetClock(ClockDays)
    \/ pc = "start" /\ runs < MaxFaultRuns /\ CorruptStore
    \/ pc = "start" /\ runs < MaxFaultRuns /\ TruncateStore
    \/ Cardinality(unwritable) < MaxLocked /\ runs < MaxFaultRuns /\ LockFile

SpecFault == Init /\ [][NextFault]_vars

\* reading the history fails although the file is there
ReadFails == read_csv(summary_file).error \notin {"none", "FileNotFoundError"}

\* C13: when the history file is there and cannot be read, the ranking
\* steps of the run write no ranking, and the chart step writes no chart
\* and deletes the file, whatever the exception is.
C13_RecoveryDeletes ==
    [][/\ (RankingStep /\ ReadFails) =>
             /\ ranking_files' = ranking_files
             /\ saved' = saved
       /\ (ChartStep /\ ReadFails) =>
             /\ chart_files' = chart_files
             /\ summary_file' = NoFile]_vars

\* C15: a ranking file or chart file that cannot be written does not keep
\* the run from generating the others.  A ranking step that has read the
\* history saves every ranking that is due (the period has its dates and
\* the category has rows on the current date) and can be written, and a
\* chart step that has read rows writes every chart that can be written.
C15_LocalFailures ==
    [][/\ (RankingStep /\ Readable) =>
             \A category \in Categories :
                 /\ (/\ <<category, "daily">> \notin unwritable
                     /\ \E pair \in DailyPair(History) :
                            RowsOf(History, pair[1], category) # <<>>)
                       => <<category, "daily">> \in saved'
                 /\ (/\ <<category, "weekly">> \notin unwritable
                     /\ \E pair \in WeeklyPair(History) :
                            RowsOf(History, pair[1], category) # <<>>)
                       => <<category, "weekly">> \in saved'
       /\ (ChartStep /\ Readable /\ History # <<>>) =>
             \A category \in Categories :
                 <<category, "chart">> \notin unwritable =>
                     chart_files'[category] \in chart_data(CategoryRows(category))]_vars

\* ------------------------------------------------------------------------
\* Runs without data: a run may scrape nothing, after the history file was
\* damaged and deleted
\* ------------------------------------------------------------------------

MaxEmptyRuns == 3

EmptyInputs == {<<DayOne, MovieDay>>, <<DayTwo, <<>>>>, <<<<>>, <<>>>>}

\* the history file is damaged between two runs, but not before the last
\* one: the last run sees what the recovery of the run before has left
NextEmpty ==
    \/ runs < MaxEmptyRuns /\ CallSaveData(EmptyInputs)
    \/ SaveData
    \/ pc = "start" /\ now < MaxEmptyRuns /\ Tick
    \/ pc = "start" /\ runs < MaxEmptyRuns - 1 /\ CorruptStore

SpecEmpty == Init /\ [][NextEmpty]_vars

\* C14: when the history file does not exist, generate_chart_data returns
\* without an exception, writes no chart, leaves every ranking file and
\* snapshot file as it is and does not create the history file.
C14_MissingStore ==
    [][(ChartStep /\ ~summary_file.exists) =>
          /\ uncaught' = "none"
          /\ chart_files' = chart_files
          /\ ranking_files' = ranking_files
          /\ snapshot_files' = snapshot_files
          /\ summary_file' = summary_file]_vars

\* the third run has ended and there is no history file, while charts and
\* snapshots of the first run are there.  The file is damaged before the
\* last two runs only, so the second run deleted it and the third one,
\* which had no data, found it missing in generate_chart_data
C14_Witness ==
    /\ pc = "start" /\ runs = 3
    /\ ~summary_file.exists
    /\ chart_files["games"].written /\ chart_files["movies"].written
    /\ snapshot_files[<<"games", "raw">>].written
    /\ chart_files["games"].dates # <<>>

\* the positions of the header lines of the history file
Headers(file) == {i \in 1..Len(file.lines) : file.lines[i] = HeaderLine}

\* C16: whenever the history file exists, its first line is the header and
\* no other line is; a header is written only by the append of
\* update_summary_data that creates the file.
C16_HeaderOnce ==
    /\ [](summary_file.exists => Headers(summary_file) = {1})
    /\ [][Headers(summary_file') # Headers(summary_file) =>
             \/ ~summary_file'.exists
             \/ /\ ~summary_file.exists
                /\ \E category \in Categories : AppendStep(category)]_vars

\* the third run has ended; the history file holds rows of games but none
\* of movies, although a movies snapshot was written: the file was deleted
\* after a run with movies and created again by a later run
C16_Witness ==
    /\ pc = "start" /\ runs = 3
    /\ Readable /\ History # <<>>
    /\ snapshot_files[<<"movies", "raw">>].written
    /\ CategoryRows("movies") = <<>>
    /\ \A i \in 1..Len(History) :
          History[i].timestamp > snapshot_files[<<"movies", "raw">>].timestamp

\* the records of a category in the history file
RecordsOf(file, category) ==
    SelectSeq(file.lines, LAMBDA l : l.kind = "row" /\ l.category = category)

OtherCategory(category) == IF category = "games" THEN "movies" ELSE "games"

\* C18: in a run whose scrape of a category returned no listing, the
\* category has no group, no step appends a record of it or writes a
\* snapshot of it, and the run ends without an exception; when the other
\* category has listings, its raw and grouped snapshots are written and one
\* record per group of it is appended.
C18_EmptyCategory ==
    [][\A category \in Categories :
          (pc # "start" /\ DataOf(category) = <<>>) =>
              /\ GroupedOf(category) = <<>>
              /\ Len(RecordsOf(summary_file', category))
                    <= Len(RecordsOf(summary_file, category))
              /\ \A kind \in SnapshotKinds :
                    snapshot_files'[<<category, kind>>] = snapshot_files[<<category, kind>>]
              /\ uncaught' = "none"
              /\ LET other == OtherCategory(category)
                 IN DataOf(other) # <<>> =>
                       /\ (pc = "scraped" /\ pc' # pc) =>
                             /\ snapshot_files'[<<other, "raw">>] =
                                   [written |-> TRUE, timestamp |-> now,
                                    rows |-> DataOf(other)]
                             /\ snapshot_files'[<<other, "grouped">>].written
                             /\ snapshot_files'[<<other, "grouped">>].timestamp = now
                             /\ Len(snapshot_files'[<<other, "grouped">>].rows)
                                   = Len(GroupedOf(other))
                       /\ (pc = Before(other) /\ pc' # pc) =>
                             /\ pc' = Appended(other)
                             /\ Len(RecordsOf(summary_file', other))
                                   = Len(RecordsOf(summary_file, other))
                                       + Len(GroupedOf(other))]_vars

\* the first run has ended: it scraped movies and no game, the history
\* holds the records of the movies group and none of games, and there are
\* movies snapshots and no games snapshot
C18_Witness ==
    /\ pc = "start" /\ runs = 1 /\ uncaught = "none"
    /\ Readable
    /\ RecordsOf(summary_file, "games") = <<>>
    /\ Len(RecordsOf(summary_file, "movies")) = 1
    /\ snapshot_files[<<"movies", "raw">>].written
    /\ Len(snapshot_files[<<"movies", "raw">>].rows) = 2
    /\ snapshot_files[<<"movies", "grouped">>].written
    /\ ~snapshot_files[<<"games", "raw">>].written
    /\ ~snapshot_files[<<"games", "grouped">>].written

\* ------------------------------------------------------------------------
\* Scraping: the rows of the fetched table become listings
\* ------------------------------------------------------------------------

\* A table row is the sequence of the texts of its td cells, stripped: the
\* title of the link in the first, the seeders in the second, the leechers
\* in the third; a row may have fewer cells.  The first cell always holds a
\* torrent link here, so "Unknown Title" does not occur.
DecimalDigits == <<"0", "1", "2", "3", "4", "5", "6", "7", "8", "9">>

DigitValue(c) == (CHOOSE d \in 1..10 : DecimalDigits[d] = c) - 1

\* the number written by the first n characters of a text of digits
RECURSIVE DecimalValue(_, _)
DecimalValue(text, n) ==
    IF n = 0 THEN 0 ELSE 10 * DecimalValue(text, n - 1) + DigitValue(text[n])

\* int(text) on a stripped text without sign or underscore: a ValueError
\* unless the text is a non-empty run of digits
int(text) ==
    IF text # <<>> /\ \A i \in 1..Len(text) : \E d \in 1..10 : DecimalDigits[d] = text[i]
    THEN [error |-> "none", value |-> DecimalValue(text, Len(text))]
    ELSE [error |-> "ValueError", value |-> 0]

\* the body of the try block for one row, up to the append: columns[0],
\* int(columns[1]), int(columns[2]), each of which may raise
ParsedRow(columns) ==
    LET failed(error) == [error |-> error, title |-> <<>>, seeders |-> 0, leechers |-> 0]
    IN IF Len(columns) < 2 THEN failed("IndexError")
       ELSE IF int(columns[2]).error # "none" THEN failed(int(columns[2]).error)
       ELSE IF Len(columns) < 3 THEN failed("IndexError")
       ELSE IF int(columns[3]).error # "none" THEN failed(int(columns[3]).error)
       ELSE [error |-> "none", title |-> columns[1],
             seeders |-> int(columns[2]).value, leechers |-> int(columns[3]).value]

\* the loop over the first n rows with "except caught: continue": the rows
\* appended so far, or the exception that left the loop
RECURSIVE KeptRows(_, _, _)
KeptRows(rows, caught, n) ==
    IF n = 0 THEN [raised |-> "none", rows |-> <<>>]
    ELSE LET step(kept, row) ==
                 IF kept.raised # "none" THEN kept
                 ELSE IF row.error = "none"
                      THEN [raised |-> "none", rows |-> Append(kept.rows, row)]
                 ELSE IF row.error \in caught THEN kept
                 ELSE [raised |-> row.error, rows |-> <<>>]
         IN step(KeptRows(rows, caught, n - 1), ParsedRow(rows[n]))

\* the loop of GamesScraper.scrape and of MoviesScraper.scrape
ScraperRows(rows, category) ==
    LET listings(kept) ==
            [raised |-> kept.raised,
             data |-> [i \in 1..Len(kept.rows) |->
                          Listing(kept.rows[i].title, kept.rows[i].seeders,
                                  kept.rows[i].leechers, category)]]
    IN listings(KeptRows(rows, {"IndexError", "AttributeError"}, Len(rows)))

GamesScraper_scrape(rows) == ScraperRows(rows, "games")
MoviesScraper_scrape(rows) == ScraperRows(rows, "movies")

\* the record ArchiveScraper appends for one table row
ArchiveListing(row, category, timestamp) ==
    [title |-> row.title, seeders |-> row.seeders, leechers |-> row.leechers,
     peers |-> row.seeders + row.leechers, category |-> category,
     date |-> DateOf(timestamp), timestamp |-> timestamp]

\* the loop of ArchiveScraper.parse_games_data and parse_movies_data
ArchiveRows(rows, category, timestamp) ==
    LET listings(kept) ==
            [raised |-> kept.raised,
             data |-> [i \in 1..Len(kept.rows) |->
                          ArchiveListing(kept.rows[i], category, timestamp)]]
    IN listings(KeptRows(rows, {"IndexError", "ValueError", "AttributeError"}, Len(rows)))

parse_games_data(rows, timestamp) == ArchiveRows(rows, "games", timestamp)
parse_movies_data(rows, timestamp) == ArchiveRows(rows, "movies", timestamp)

\* scrape_data() on the two fetched tables: games are scraped and grouped
\* first, and an exception of either scraper leaves scrape_data
scrape_data(tables) ==
    LET failed(error) == [raised |-> error, games_data |-> <<>>, games_grouped |-> <<>>,
                          movies_data |-> <<>>, movies_grouped |-> <<>>]
        grouped(data, category) ==
            IF data # <<>> THEN GroupByKey(data, category) ELSE <<>>
        both(g, m) ==
            IF g.raised # "none" THEN failed(g.raised)
            ELSE IF m.raised # "none" THEN failed(m.raised)
            ELSE [raised |-> "none",
                  games_data |-> g.data, games_grouped |-> grouped(g.data, "games"),
                  movies_data |-> m.data, movies_grouped |-> grouped(m.data, "movies")]
    IN both(GamesScraper_scrape(tables["games"]), MoviesScraper_scrape(tables["movies"]))

\* main() up to save_data: the pages are fetched and scrape_data runs; an
\* exception it does not catch ends the process
ScrapeTables(Tables) ==
    /\ pc = "start"
    /\ \E tables \in Tables :
          /\ soup' = tables
          /\ LET set(out) ==
                     /\ games_data' = out.games_data
                     /\ games_grouped' = out.games_grouped
                     /\ movies_data' = out.movies_data
                     /\ movies_grouped' = out.movies_grouped
                     /\ uncaught' = out.raised
                     /\ pc' = IF out.raised = "none" THEN "scraped" ELSE "start"
             IN set(scrape_data(tables))
    /\ UNCHANGED <<runs, now, item_groups, disk, saved, archive_soup, archive_data,
                   race, written, request>>

\* ArchiveScraper.scrape() of one category on a fetched archived page
ArchiveScrape(Pages) ==
    /\ pc = "start"
    /\ \E category \in Categories, rows \in Pages :
          /\ archive_soup' = [category |-> category, rows |-> rows]
          /\ LET set(out) ==
                     /\ archive_data' = out.data
                     /\ uncaught' = out.raised
             IN set(IF category = "games" THEN parse_games_data(rows, now)
                    ELSE parse_movies_data(rows, now))
    /\ UNCHANGED <<pc, runs, now, games_data, games_grouped, movies_data,
                   movies_grouped, item_groups, disk, saved, soup, race, written, request>>

\* the cells of a row: a title, then counts that are numbers, empty or text
RowTitles == {<<"a">>, <<"b">>}
SeederTexts == {<<"1", "2">>, <<"-">>}
RowInputs ==
    {<<t, s, <<"1">>>> : t \in RowTitles, s \in SeederTexts}
        \cup {<<<<"a">>, <<"1", "2">>, <<>>>>, <<<<"a">>, <<"1", "2">>>>}

\* the most rows of a fetched table
MaxTableRows == 2
\* the runs of main() that reach save_data
MaxScrapeRuns == 1

\* a row with counts and a row whose seeders are not a number
GoodRow == <<<<"b">>, <<"1", "2">>, <<"1">>>>
BadRow == <<<<"a">>, <<"-">>, <<"1">>>>

\* the games table has up to MaxTableRows rows, the movies table up to one
TableInputs ==
    {[category \in Categories |-> IF category = "games" THEN g ELSE m] :
        g \in SeqsUpTo(RowInputs, MaxTableRows), m \in {<<>>, <<GoodRow>>, <<BadRow>>}}

\* an empty archived page, and pages of any row followed by a row with counts
ArchivePages == {<<>>} \cup {<<row, GoodRow>> : row \in RowInputs}

NextScrape ==
    \/ runs < MaxScrapeRuns /\ ScrapeTables(TableInputs)
    \/ SaveData
    \/ runs < MaxScrapeRuns /\ ArchiveScrape(ArchivePages)

SpecScrape == Init /\ [][NextScrape]_vars

\* a row all of whose cells are there and whose counts are numbers
IsNumber(text) == text # <<>> /\ \A i \in 1..Len(text) : text[i] \in {"0", "1", "2"}
WellFormedRows(rows) ==
    SelectSeq(rows, LAMBDA row : Len(row) = 3 /\ IsNumber(row[2]) /\ IsNumber(row[3]))
\* the title, seeders and leechers of the listings, in order
Returned(data) ==
    [i \in 1..Len(data) |-> <<data[i].title, data[i].seeders, data[i].leechers>>]
Expected(rows) ==
    LET counts(good) ==
            [i \in 1..Len(good) |->
                <<good[i][1], DecimalValue(good[i][2], Len(good[i][2])),
                  DecimalValue(good[i][3], Len(good[i][3]))>>]
    IN counts(WellFormedRows(rows))

\* C19: a scrape does not raise, whatever the counts of the rows of the
\* table are, and returns the rows whose counts are numbers, in the order of
\* the table: GamesScraper.scrape and MoviesScraper.scrape within
\* scrape_data, parse_games_data and parse_movies_data within
\* ArchiveScraper.scrape.
C19_SkipsUnparsableRow ==
    [][/\ (pc = "start" /\ (pc' = "scraped" \/ soup' # soup)) =>
             /\ uncaught' = "none"
             /\ \A category \in Categories :
                   Returned(DataOf(category)') = Expected(soup'[category])
       /\ archive_soup' # archive_soup =>
             /\ uncaught' = "none"
             /\ Returned(archive_data') = Expected(archive_soup'.rows)]_vars

\* the same for the archive scraper alone
ArchiveSkipsUnparsableRow ==
    [][archive_soup' # archive_soup =>
             /\ uncaught' = "none"
             /\ Returned(archive_data') = Expected(archive_soup'.rows)]_vars

\* ------------------------------------------------------------------------
\* The key transform applied to titles and to its own output
\* ------------------------------------------------------------------------

\* the characters of the titles, and the most of them before a release tag
KeyAlphabet == {"a", "0", "2", " ", "-"}
MaxKeyLen == 5
GroupTag == <<"-", "a">>

\* titles as the scrapers return them, stripped: up to n characters, or n
\* characters followed by the tag of a release group
KeyTitles(n) ==
    {t \in SeqsUpTo(KeyAlphabet, n) \cup {t \o GroupTag : t \in [1..n -> KeyAlphabet]} :
        t # <<>> /\ Strip(t) = t}

\* a scrape that returns one game
KeyInputs(n) == {<<<<Listing(t, 1, 0, "games")>>, <<>>>> : t \in KeyTitles(n)}

NextKey ==
    \/ ScrapeData(KeyInputs(MaxKeyLen))
    \/ Exit

SpecKey == Init /\ [][NextKey]_vars

\* C20: the key transform returns its own output unchanged: for the title
\* of every scraped game, clean_title(., for_display=False) applied to
\* clean_title(title, for_display=False) gives the same string, and the
\* grouping key of the game's grouping key is that key.
C20_KeyIdempotent ==
    \A i \in 1..Len(games_data) :
        /\ clean_title(clean_title(games_data[i].title, FALSE), FALSE)
              = clean_title(games_data[i].title, FALSE)
        /\ get_game_grouping_key(get_game_grouping_key(games_data[i].title).key).key
              = get_game_grouping_key(games_data[i].title).key

\* the two halves of C20
CleanTitleIdempotent ==
    \A i \in 1..Len(games_data) :
        clean_title(clean_title(games_data[i].title, FALSE), FALSE)
            = clean_title(games_data[i].title, FALSE)
GameKeyIdempotent ==
    \A i \in 1..Len(games_data) :
        get_game_grouping_key(get_game_grouping_key(games_data[i].title).key).key
            = get_game_grouping_key(games_data[i].title).key

\* ------------------------------------------------------------------------
\* Keys and display titles of titles with an opening bracket
\* ------------------------------------------------------------------------

\* the characters of the titles: a bracket that is opened and never closed
\* is not content in brackets for clean_title
DisplayAlphabet == {"a", "A", "2", "0", " ", "("}
MaxDisplayLen == 5

\* titles of up to n characters as the scrapers return them, stripped and
\* not empty
DisplayTitles(n) ==
    {t \in SeqsUpTo(DisplayAlphabet, n) : t # <<>> /\ Strip(t) = t}

\* a scrape that returns one game or one movie
DisplayInputs(n) ==
    {<<<<Listing(t, 1, 0, "games")>>, <<>>>> : t \in DisplayTitles(n)}
        \cup {<<<<>>, <<Listing(t, 1, 0, "movies")>>>> : t \in DisplayTitles(n)}

NextDisplay ==
    \/ ScrapeData(DisplayInputs(MaxDisplayLen))
    \/ Exit

SpecDisplay == Init /\ [][NextDisplay]_vars

\* a key and a display title as the grouping-key functions promise them
WellFormedKey(k) ==
    /\ k.display # <<>>
    /\ k.key # <<>>
    /\ Lower(k.key) = k.key
    /\ \A c \in 1..Len(k.key) : k.key[c] # " "

\* C21: for every scraped title, which is neither empty nor whitespace
\* only, get_game_grouping_key and get_movie_grouping_key return a display
\* title that is not empty and a key that is not empty, lowercase and
\* without whitespace.
C21_KeyAndDisplay ==
    \A category \in Categories : \A i \in 1..Len(DataOf(category)) :
        Strip(DataOf(category)[i].title) # <<>> =>
            WellFormedKey(GroupingKey(category, DataOf(category)[i].title))

\* the same for games alone
GameKeyAndDisplay ==
    \A i \in 1..Len(games_data) :
        WellFormedKey(get_game_grouping_key(games_data[i].title))

\* ------------------------------------------------------------------------
\* Movie keys: the text before the first year
\* ------------------------------------------------------------------------

\* the characters of the text before a year, and the most of them in a
\* scrape of one movie and in a scrape of two
PrefixAlphabet == {"a", "A", " "}
MaxPrefixLen == 5
MaxPairPrefixLen == 4

\* a year, and what may follow it: nothing, a word, another year
YearToken == <<"2", "0", "2", "0">>
AfterYear == {<<>>, <<" ", "b">>, <<" ", "2", "0", "0", "0">>}

\* titles as the scrapers return them, stripped and not empty: a text of up
\* to n characters, or such a text followed by a year and by one of after
MovieTitles(n, after) ==
    {t \in SeqsUpTo(PrefixAlphabet, n) \cup
            {p \o YearToken \o a : p \in SeqsUpTo(PrefixAlphabet, n), a \in after} :
        t # <<>> /\ Strip(t) = t}

\* the listings of the movies with the given titles and counts
MovieListings(titles, seeders, leechers) ==
    {Listing(t, seeders, leechers, "movies") : t \in titles}

\* a scrape that returns one movie with a prefix of up to n characters, or
\* two with prefixes of up to m characters of which the first ends with its
\* year
MovieInputs(n, m) ==
    {<<<<>>, <<t>>>> : t \in MovieListings(MovieTitles(n, AfterYear), 1, 0)}
        \cup {<<<<>>, <<t, u>>>> :
                 t \in MovieListings(MovieTitles(m, {<<>>}), 1, 0),
                 u \in MovieListings(MovieTitles(m, AfterYear \ {<<>>}), 2, 1)}

NextMovie ==
    \/ ScrapeData(MovieInputs(MaxPrefixLen, MaxPairPrefixLen))
    \/ Exit

SpecMovie == Init /\ [][NextMovie]_vars

\* the text before the first year token of a title whose dots are spaces,
\* stripped; empty when the title has no year token
YearPrefix(title) ==
    LET before(dotted, years) ==
            IF years = {} THEN <<>>
            ELSE Strip(SubSeq(dotted, 1, (CHOOSE i \in years : \A j \in years : i <= j) - 1))
        of(dotted) == before(dotted, {i \in 1..Len(dotted) : YearAt(dotted, i)})
    IN of(ReplaceDots(title))

\* the key and the display title of a movie title as C22 gives them
MovieKeyAsStated(title, k) ==
    IF YearPrefix(title) # <<>>
    THEN /\ k.display = CollapseSpaces(YearPrefix(title))
         /\ k.key = Lower(RemoveSpaces(YearPrefix(title)))
    ELSE /\ k.key = OrElse(RemoveSpaces(clean_title(title, FALSE)), unknown_movie_group)
         /\ clean_title(title, FALSE) # <<>> => k.display = clean_title(title, FALSE)

\* C22: for every scraped movie title with a year token after a text that
\* is not empty, the display title is that text with whitespace collapsed
\* and the key is that text in lower case without whitespace; without such
\* a text both come from clean_title(title, for_display=False); and two
\* movies whose texts before the year differ in case or whitespace only are
\* in one group.
C22_MoviePrefix ==
    /\ \A i \in 1..Len(movies_data) :
          MovieKeyAsStated(movies_data[i].title,
                           get_movie_grouping_key(movies_data[i].title))
    /\ \A i \in 1..Len(movies_data) : \A j \in 1..Len(movies_data) :
          (/\ i # j
           /\ YearPrefix(movies_data[i].title) # <<>>
           /\ Lower(RemoveSpaces(YearPrefix(movies_data[i].title)))
                 = Lower(RemoveSpaces(YearPrefix(movies_data[j].title))))
             => Len(movies_grouped) = 1

\* C22 but for the whitespace of the display title, which is kept as it is
\* in the title
MovieKeyFromPrefix ==
    /\ \A i \in 1..Len(movies_data) :
          LET holds(title, k) ==
                  IF YearPrefix(title) # <<>>
                  THEN /\ k.display = YearPrefix(title)
                       /\ k.key = Lower(RemoveSpaces(YearPrefix(title)))
                  ELSE MovieKeyAsStated(title, k)
          IN holds(movies_data[i].title, get_movie_grouping_key(movies_data[i].title))
    /\ \A i \in 1..Len(movies_data) : \A j \in 1..Len(movies_data) :
          (/\ i # j
           /\ YearPrefix(movies_data[i].title) # <<>>
           /\ Lower(RemoveSpaces(YearPrefix(movies_data[i].title)))
                 = Lower(RemoveSpaces(YearPrefix(movies_data[j].title))))
             => Len(movies_grouped) = 1

\* ------------------------------------------------------------------------
\* Two releases of one game
\* ------------------------------------------------------------------------

GameName == <<"G", "a", "m", "e", " ", "T", "i", "t", "l", "e">>

\* what a listing's title carries behind the name of the game
ReleaseTags ==
    {<<>>,
     <<" ", "(", "v", "1", ".", "2", ")", " ", "[", "R", "E", "P", "A", "C", "K", "]", "-", "G", "R", "O", "U", "P">>,
     <<" ", "R", "e", "p", "a", "c", "k", "-", "G", "R", "O", "U", "P", "2">>,
     <<" ", "v", "1", ".", "2">>,
     <<"-", "G", "R", "O", "U", "P">>,
     <<" ", "[", "R", "E", "P", "A", "C", "K", "]">>}

\* (seeders, leechers) of the releases
ReleaseCounts == {<<10, 5>>, <<20, 2>>}

\* the most listings the scrape returns
MaxReleases == 2

ReleaseListings ==
    {Listing(GameName \o tag, c[1], c[2], "games") : tag \in ReleaseTags, c \in ReleaseCounts}

\* a scrape that returns releases of the game, and no movie
ReleaseInputs == {<<g, <<>>>> : g \in SeqsUpTo(ReleaseListings, MaxReleases)}

NextRelease ==
    \/ ScrapeData(ReleaseInputs)
    \/ Exit

SpecRelease == Init /\ [][NextRelease]_vars

RepackInBrackets == Listing(GameName \o <<" ", "(", "v", "1", ".", "2", ")", " ", "[", "R", "E", "P", "A", "C", "K", "]", "-", "G", "R", "O", "U", "P">>, 10, 5, "games")
RepackByGroup2 == Listing(GameName \o <<" ", "R", "e", "p", "a", "c", "k", "-", "G", "R", "O", "U", "P", "2">>, 20, 2, "games")

\* C23: "Game Title (v1.2) [REPACK]-GROUP" with 10 seeders and 5 leechers and
\* "Game Title Repack-GROUP2" with 20 seeders and 2 leechers have the same
\* grouping key, and a scrape that returns the two is grouped into one group
\* with total_seeders 30, total_leechers 7 and total_peers 37.
C23_TwoReleases ==
    /\ get_game_grouping_key(RepackInBrackets.title).key
           = get_game_grouping_key(RepackByGroup2.title).key
    /\ games_data \in {<<RepackInBrackets, RepackByGroup2>>,
                        <<RepackByGroup2, RepackInBrackets>>}
           => /\ Len(games_grouped) = 1
              /\ games_grouped[1].torrents = games_data
              /\ games_grouped[1].total_seeders = 30
              /\ games_grouped[1].total_leechers = 7
              /\ games_grouped[1].total_peers = 37

\* the scrape has returned the two releases
C23_Witness ==
    /\ pc = "scraped"
    /\ games_data = <<RepackInBrackets, RepackByGroup2>>
    /\ Len(games_grouped) = 1

\* ------------------------------------------------------------------------
\* Processes that call update_summary_data at the same time
\* ------------------------------------------------------------------------

\* The history file is shared by the processes; the steps of a call up to
\* the append are taken one by one, in any interleaving with the steps of
\* the other calls.  What a call does after its append reads the file and
\* writes the rankings; it is not a step here.

\* the groups a call is given: one listing of one category
CallerTitles == {<<"a">>, <<"b">>}
CallerGroups ==
    {[category |-> category,
      grouped_data |-> GroupByKey(<<Listing(t, 1, 0, category)>>, category)] :
        category \in Categories, t \in CallerTitles}

\* a call is between its first line and its append
InProgress(p) == callers[p].at \in {"built", "checked"}

\* timestamp_iso, current_date, current_summary and new_df
BuildSummary(p) ==
    /\ callers[p].at = "idle"
    /\ \E in \in CallerGroups :
          callers' = [callers EXCEPT ![p] =
                         [at |-> "built",
                          new_df |-> current_summary(in.grouped_data, in.category,
                                                     DateOf(now), now),
                          file_exists |-> FALSE]]
    /\ overlapped' = (overlapped \/ \E q \in Callers \ {p} : InProgress(q))
    /\ UNCHANGED <<pc, runs, now, memory, disk, saved, web, written, request>>

\* file_exists = os.path.exists(summary_file)
CheckExists(p) ==
    /\ callers[p].at = "built"
    /\ callers' = [callers EXCEPT ![p] =
                      [@ EXCEPT !.at = "checked", !.file_exists = summary_file.exists]]
    /\ UNCHANGED <<pc, runs, now, memory, disk, saved, web, overlapped, written,
                   request>>

\* new_df.to_csv(summary_file, mode='a', header=not file_exists)
AppendSummary(p) ==
    /\ callers[p].at = "checked"
    /\ summary_file' = to_csv(summary_file, callers[p].new_df, ~callers[p].file_exists)
    /\ callers' = [callers EXCEPT ![p] = [@ EXCEPT !.at = "appended"]]
    /\ UNCHANGED <<pc, runs, now, memory, ranking_files, chart_files, snapshot_files,
                   unwritable, saved, web, overlapped, written,
                   request>>

NextRace ==
    \/ \E p \in Callers : BuildSummary(p)
    \/ \E p \in Callers : CheckExists(p)
    \/ \E p \in Callers : AppendSummary(p)

SpecRace == Init /\ [][NextRace]_vars

\* the calls that were told that the file is missing, and have appended
SawMissing == {p \in Callers : callers[p].at = "appended" /\ ~callers[p].file_exists}

\* C25: the existence check and the append of update_summary_data are two
\* steps.  The history file has more than one header row only when calls
\* have overlapped, and then it has one header row for each call that was
\* told that the file is missing; calls that follow one another leave one
\* header row, and at most one of them is told that the file is missing.
C25_HeaderRace ==
    /\ Cardinality(Headers(summary_file)) = Cardinality(SawMissing)
    /\ Cardinality(SawMissing) >= 2 => overlapped
    /\ ~overlapped =>
          Cardinality({p \in Callers : callers[p].at \in {"checked", "appended"}
                                         /\ ~callers[p].file_exists}) <= 1

\* two calls on a missing file have interleaved: both were told that the
\* file is missing, and the file has two header rows
C25_Witness ==
    /\ overlapped
    /\ \A p \in 1..2 : callers[p].at = "appended" /\ ~callers[p].file_exists
    /\ Cardinality(Headers(summary_file)) = 2
    /\ summary_file.lines[1] = HeaderLine
    /\ \E i \in 3..Len(summary_file.lines) : summary_file.lines[i] = HeaderLine

\* ------------------------------------------------------------------------
\* BaseScraper.make_request (scrapers/base_scraper.py, lines 385-439)
\* ------------------------------------------------------------------------

max_retries == 3
retry_delay == 2
rate_limit_delay == 10

\* how one pass of the loop body can go: the session cannot be created
\* (nothing is sent), scraper.get raises (a timeout, a refused connection),
\* or scraper.get returns a response with a status code
StatusCodes == {200, 204, 403, 404, 429, 500}
Raised(what) == [kind |-> what, status_code |-> 0]
Response(status_code) == [kind |-> "response", status_code |-> status_code]
Outcomes == {Raised("no session"), Raised("get raised")}
               \cup {Response(status_code) : status_code \in StatusCodes}

\* requests' Response.raise_for_status raises for the 4xx and 5xx codes
raise_for_status(status_code) == status_code >= 400 /\ status_code < 600

\* range(max_retries) with one more pass
InRange_Inclusive(attempt, stop) == attempt <= stop

\* for attempt in range(stop): whether the loop has a pass for this value
InRange(attempt, stop) == attempt < stop

\* the pass ends in the except clause
Excepted(outcome) ==
    \/ outcome.kind # "response"
    \/ /\ outcome.status_code \notin {403, 429, 200}
       /\ raise_for_status(outcome.status_code)

\* the call of make_request
CallRequest ==
    /\ request.at = "idle"
    /\ request' = [request EXCEPT !.at = "loop"]
    /\ UNCHANGED <<pc, runs, now, memory, disk, saved, web, race, written>>

\* one pass of the loop body (lines 399-437)
Attempt(outcome) ==
    /\ request.at = "loop"
    /\ InRange(request.attempt, max_retries)
    /\ LET attempt == request.attempt
           slept == retry_delay * (attempt + 1)
                      + (IF outcome = Response(429) THEN rate_limit_delay ELSE 0)
           sent == IF outcome.kind = "no session" THEN 0 ELSE 1
           returns == IF outcome = Response(200) THEN "response"
                      ELSE IF Excepted(outcome) /\ ~(attempt < max_retries - 1)
                           THEN "None"
                           ELSE "nothing"
       IN request' = [at |-> IF returns = "nothing" THEN "loop" ELSE "returned",
                      attempt |-> IF returns = "nothing" THEN attempt + 1 ELSE attempt,
                      outcomes |-> Append(request.outcomes, outcome),
                      gets |-> request.gets + sent,
                      slept |-> request.slept + slept,
                      returned |-> returns]
    /\ UNCHANGED <<pc, runs, now, memory, disk, saved, web, race, written>>

\* the loop has no pass left: return None (line 439)
Exhausted ==
    /\ request.at = "loop"
    /\ ~InRange(request.attempt, max_retries)
    /\ request' = [request EXCEPT !.at = "returned", !.returned = "None"]
    /\ UNCHANGED <<pc, runs, now, memory, disk, saved, web, race, written>>

NextRequest ==
    \/ CallRequest
    \/ \E outcome \in Outcomes : Attempt(outcome)
    \/ Exhausted

\* time.sleep, create_scraper and scraper.get(url, timeout=30) each return
\* or raise, so a call that has a step to take takes it
SpecRequest == Init /\ [][NextRequest]_vars /\ WF_vars(NextRequest)

\* a pass that did not get a response with status 200
Failed(outcome) == outcome # Response(200)

\* what holds of a call of make_request at every moment
RequestBounded ==
    /\ request.gets <= max_retries
    /\ Len(request.outcomes) <= max_retries
    /\ request.gets <= Len(request.outcomes)
    /\ request.returned = "response" =>
          /\ request.at = "returned"
          /\ request.outcomes[Len(request.outcomes)] = Response(200)
    /\ request.returned = "None" =>
          /\ request.at = "returned"
          /\ Len(request.outcomes) = max_retries
          /\ \A i \in 1..max_retries : Failed(request.outcomes[i])
    /\ request.at = "returned" => request.returned \in {"response", "None"}
    /\ (request.at = "loop" /\ request.outcomes # <<>>) =>
          \A i \in 1..Len(request.outcomes) : Failed(request.outcomes[i])

\* C30: make_request returns, after at most 3 GETs; it returns a response
\* only when the response has status 200, and None only when 3 passes have
\* each ended in a 403, a 429, another status that is not 200 or an
\* exception; once 3 passes have failed nothing more is sent.
C30_AtMostThreeAttempts ==
    /\ []RequestBounded
    /\ <>(request.at = "returned")
    /\ [][request.gets = max_retries => request'.gets = max_retries]_vars

\* three passes have failed, with a 403, a 429 and a 500, three GETs were
\* sent and the call has returned None
C30_Witness ==
    /\ request.at = "returned"
    /\ request.returned = "None"
    /\ request.gets = 3
    /\ request.outcomes = <<Response(403), Response(429), Response(500)>>

====
